---- MODULE Spec2Model ----
(***************************************************************************)
(* Order State & Overlay Synchronization Engine (OrderManagerImpl) of the  *)
(* klinecharts-pro order layer, together with the part of the host chart   *)
(* it talks to (createOverlay / overrideOverlay / removeOverlay and the    *)
(* pointer events the overlay template handles).                           *)
(*                                                                         *)
(* Encoding of JavaScript values:                                          *)
(*   - an object is a function from field names to values; a field whose   *)
(*     value is undefined is left out of the domain (reading it gives      *)
(*     "absent", which is how every read in the source treats undefined);  *)
(*   - a Map is a sequence of [key, value] entries in insertion order;     *)
(*   - an overlay id returned by the host is a positive integer, and 0     *)
(*     stands for the null the host returns when it creates nothing.       *)
(***************************************************************************)
EXTENDS Integers, Sequences, FiniteSets, TLC

VARIABLES
  orders,        \* OrderManagerImpl.orders      : Map<string, TradingOrder>
  overlayIds,    \* OrderManagerImpl.overlayIds  : Map<string, string>
  callbacks,     \* OrderManagerImpl.callbacks   : OrderCallback[]
  theme,         \* OrderManagerImpl.theme       : OrderTheme
  chart,         \* OrderManagerImpl.chart       : TRUE when a chart is attached, FALSE when null
  currentPrice,  \* OrderManagerImpl.currentPrice
  overlays,      \* the host chart's primitives  : overlay id -> [points, extendData]
  nextOverlay,   \* the host chart's id counter for createOverlay
  log,           \* what the last call did, in order: host calls, store writes, deliveries
  last,          \* the last call: its name, its id argument, what it raised, what it returned
  calls,         \* the number of calls made so far
  handedOut      \* the order objects a caller got from getOrder and still holds

vars == <<orders, overlayIds, callbacks, theme, chart, currentPrice,
          overlays, nextOverlay, log, last, calls, handedOut>>

-----------------------------------------------------------------------------
(* Bounds of the model *)

\* the model follows every sequence of at most this many calls (methods of the
\* engine and events of the host)
MaxCalls == 4

-----------------------------------------------------------------------------
(* JavaScript objects and Maps *)

Has(o, f) == f \in DOMAIN o

\* `o[f]` used as a condition, for a numeric field: undefined and 0 are falsy
TruthyNum(o, f) == Has(o, f) /\ o[f] # 0

\* `o[f]` used as a condition, for a string field: undefined and '' are falsy
TruthyStr(o, f) == Has(o, f) /\ o[f] # ""

\* { ...a, ...b }: the fields of b win
Spread(a, b) == b @@ a

EmptyMap == <<>>

MapKeySeq(m) == [i \in 1..Len(m) |-> m[i].key]

MapKeys(m) == {m[i].key : i \in 1..Len(m)}

MapHas(m, k) == \E i \in 1..Len(m) : m[i].key = k

MapGet(m, k) == m[CHOOSE i \in 1..Len(m) : m[i].key = k].value

MapSet(m, k, v) ==
  IF MapHas(m, k)
  THEN [i \in 1..Len(m) |-> IF m[i].key = k THEN [key |-> k, value |-> v] ELSE m[i]]
  ELSE Append(m, [key |-> k, value |-> v])

MapDelete(m, k) == SelectSeq(m, LAMBDA e : e.key # k)

MapSize(m) == Len(m)

-----------------------------------------------------------------------------
(* types.ts *)

OrderType == {"market", "limit", "stop_loss", "take_profit", "entry"}
OrderSide == {"buy", "sell"}
OrderStatus == {"pending", "filled", "cancelled", "partially_filled"}
OrderEvent == {"created", "updated", "cancelled", "filled", "dragged"}

\* the handlers a subscriber (OrderCallback) may implement
CallbackHandlers == {"onOrderEvent", "onPriceChange", "onCancel", "onOrderClick"}

-----------------------------------------------------------------------------
(* themes.ts *)

\* An OrderStyle is kept by its lineColor and lineStyle; the fields left out
\* (textColor, backgroundColor, lineWidth, fontSize, showCancelButton,
\* draggable) are copied and looked up the same way and are never read by the
\* engine.
Style(color, style) == [lineColor |-> color, lineStyle |-> style]

lightTheme ==
  [buy |->
     [entry      |-> Style("#1976d2", "solid"),
      limit      |-> Style("#ff9800", "dashed"),
      stopLoss   |-> Style("#f44336", "solid"),
      takeProfit |-> Style("#4caf50", "solid"),
      market     |-> Style("#9c27b0", "solid")],
   sell |->
     [entry      |-> Style("#d32f2f", "solid"),
      limit      |-> Style("#f57c00", "dashed"),
      stopLoss   |-> Style("#f44336", "solid"),
      takeProfit |-> Style("#4caf50", "solid"),
      market     |-> Style("#9c27b0", "solid")]]

darkTheme ==
  [buy |->
     [entry      |-> Style("#42a5f5", "solid"),
      limit      |-> Style("#ffb74d", "dashed"),
      stopLoss   |-> Style("#ef5350", "solid"),
      takeProfit |-> Style("#66bb6a", "solid"),
      market     |-> Style("#ab47bc", "solid")],
   sell |->
     [entry      |-> Style("#ef5350", "solid"),
      limit      |-> Style("#ff8a65", "dashed"),
      stopLoss   |-> Style("#ef5350", "solid"),
      takeProfit |-> Style("#66bb6a", "solid"),
      market     |-> Style("#ab47bc", "solid")]]

defaultTheme == darkTheme

\* a value that is undefined
undefined == <<>>

\* sideTheme[type] || sideTheme.entry, which is undefined for a side table
\* that has neither
getOrderStyle(t, side, type) ==
  LET sideTheme == t[side]
  IN IF Has(sideTheme, type) THEN sideTheme[type]
     ELSE IF Has(sideTheme, "entry") THEN sideTheme.entry
     ELSE undefined

\* ...customTheme.buy spreads nothing when the custom theme has no such side
SideOf(customTheme, side) ==
  IF Has(customTheme, side) THEN customTheme[side] ELSE undefined

mergeThemes(baseTheme, customTheme) ==
  [buy |-> Spread(baseTheme.buy, SideOf(customTheme, "buy")),
   sell |-> Spread(baseTheme.sell, SideOf(customTheme, "sell"))]

-----------------------------------------------------------------------------
(* utils.ts *)

\* calculatePnL that computes the unrealized PnL whatever the status
calculatePnL_IgnoresStatus(order, price) ==
  LET entryPrice == IF TruthyNum(order, "entryPrice") THEN order.entryPrice ELSE order.price
      quantity == IF TruthyNum(order, "fillQuantity") THEN order.fillQuantity ELSE order.quantity
      fees == IF TruthyNum(order, "fees") THEN order.fees ELSE 0
      unrealizedPnl ==
        IF order.side = "buy"
        THEN (price - entryPrice) * quantity
        ELSE (entryPrice - price) * quantity
      netPnl == unrealizedPnl - fees
  IN [unrealizedPnl |-> unrealizedPnl, realizedPnl |-> 0,
      percentage |-> [num |-> 0, den |-> 1], fees |-> fees, netPnl |-> netPnl]

\* calculatePnL that values a sell order as a buy order
calculatePnL_SellAsBuy(order, price) ==
  LET entryPrice == IF TruthyNum(order, "entryPrice") THEN order.entryPrice ELSE order.price
      quantity == IF TruthyNum(order, "fillQuantity") THEN order.fillQuantity ELSE order.quantity
      fees == IF TruthyNum(order, "fees") THEN order.fees ELSE 0
      unrealizedPnl ==
        IF order.status = "filled" \/ order.status = "partially_filled"
        THEN (price - entryPrice) * quantity
        ELSE 0
      realizedPnl ==
        IF order.status = "filled" /\ TruthyNum(order, "fillPrice")
        THEN IF order.side = "buy"
             THEN (order.fillPrice - entryPrice) * quantity
             ELSE (entryPrice - order.fillPrice) * quantity
        ELSE 0
      netPnl == unrealizedPnl + realizedPnl - fees
      percentage ==
        IF entryPrice > 0
        THEN [num |-> netPnl * 100, den |-> entryPrice * quantity]
        ELSE [num |-> 0, den |-> 1]
  IN [unrealizedPnl |-> unrealizedPnl, realizedPnl |-> realizedPnl,
      percentage |-> percentage, fees |-> fees, netPnl |-> netPnl]

\* calculatePnL that takes the reference price, not order.price, for a missing
\* entryPrice
calculatePnL_EntryFromReference(order, price) ==
  LET entryPrice == IF TruthyNum(order, "entryPrice") THEN order.entryPrice ELSE price
      quantity == IF TruthyNum(order, "fillQuantity") THEN order.fillQuantity ELSE order.quantity
      fees == IF TruthyNum(order, "fees") THEN order.fees ELSE 0
      unrealizedPnl ==
        IF order.status = "filled" \/ order.status = "partially_filled"
        THEN IF order.side = "buy"
             THEN (price - entryPrice) * quantity
             ELSE (entryPrice - price) * quantity
        ELSE 0
      realizedPnl ==
        IF order.status = "filled" /\ TruthyNum(order, "fillPrice")
        THEN IF order.side = "buy"
             THEN (order.fillPrice - entryPrice) * quantity
             ELSE (entryPrice - order.fillPrice) * quantity
        ELSE 0
      netPnl == unrealizedPnl + realizedPnl - fees
      percentage ==
        IF entryPrice > 0
        THEN [num |-> netPnl * 100, den |-> entryPrice * quantity]
        ELSE [num |-> 0, den |-> 1]
  IN [unrealizedPnl |-> unrealizedPnl, realizedPnl |-> realizedPnl,
      percentage |-> percentage, fees |-> fees, netPnl |-> netPnl]

\* calculatePnL that realizes the PnL of a partially_filled order as well
calculatePnL_RealizedWhenPartlyFilled(order, price) ==
  LET entryPrice == IF TruthyNum(order, "entryPrice") THEN order.entryPrice ELSE order.price
      quantity == IF TruthyNum(order, "fillQuantity") THEN order.fillQuantity ELSE order.quantity
      fees == IF TruthyNum(order, "fees") THEN order.fees ELSE 0
      unrealizedPnl ==
        IF order.status = "filled" \/ order.status = "partially_filled"
        THEN IF order.side = "buy"
             THEN (price - entryPrice) * quantity
             ELSE (entryPrice - price) * quantity
        ELSE 0
      realizedPnl ==
        IF order.status \in {"filled", "partially_filled"} /\ TruthyNum(order, "fillPrice")
        THEN IF order.side = "buy"
             THEN (order.fillPrice - entryPrice) * quantity
             ELSE (entryPrice - order.fillPrice) * quantity
        ELSE 0
      netPnl == unrealizedPnl + realizedPnl - fees
      percentage ==
        IF entryPrice > 0
        THEN [num |-> netPnl * 100, den |-> entryPrice * quantity]
        ELSE [num |-> 0, den |-> 1]
  IN [unrealizedPnl |-> unrealizedPnl, realizedPnl |-> realizedPnl,
      percentage |-> percentage, fees |-> fees, netPnl |-> netPnl]

\* calculatePnL that divides whatever the sign of entryPrice
calculatePnL_NoDivisionGuard(order, price) ==
  LET entryPrice == IF TruthyNum(order, "entryPrice") THEN order.entryPrice ELSE order.price
      quantity == IF TruthyNum(order, "fillQuantity") THEN order.fillQuantity ELSE order.quantity
      fees == IF TruthyNum(order, "fees") THEN order.fees ELSE 0
      unrealizedPnl ==
        IF order.status = "filled" \/ order.status = "partially_filled"
        THEN IF order.side = "buy"
             THEN (price - entryPrice) * quantity
             ELSE (entryPrice - price) * quantity
        ELSE 0
      realizedPnl ==
        IF order.status = "filled" /\ TruthyNum(order, "fillPrice")
        THEN IF order.side = "buy"
             THEN (order.fillPrice - entryPrice) * quantity
             ELSE (entryPrice - order.fillPrice) * quantity
        ELSE 0
      netPnl == unrealizedPnl + realizedPnl - fees
      percentage ==
        [num |-> netPnl * 100, den |-> entryPrice * quantity]
  IN [unrealizedPnl |-> unrealizedPnl, realizedPnl |-> realizedPnl,
      percentage |-> percentage, fees |-> fees, netPnl |-> netPnl]

\* percentage is a quotient of integers: it is kept as the pair num/den it is
\* computed from, (netPnl / (entryPrice * quantity)) * 100
calculatePnL(order, price) ==
  LET entryPrice == IF TruthyNum(order, "entryPrice") THEN order.entryPrice ELSE order.price
      quantity == IF TruthyNum(order, "fillQuantity") THEN order.fillQuantity ELSE order.quantity
      fees == IF TruthyNum(order, "fees") THEN order.fees ELSE 0
      unrealizedPnl ==
        IF order.status = "filled" \/ order.status = "partially_filled"
        THEN IF order.side = "buy"
             THEN (price - entryPrice) * quantity
             ELSE (entryPrice - price) * quantity
        ELSE 0
      realizedPnl ==
        IF order.status = "filled" /\ TruthyNum(order, "fillPrice")
        THEN IF order.side = "buy"
             THEN (order.fillPrice - entryPrice) * quantity
             ELSE (entryPrice - order.fillPrice) * quantity
        ELSE 0
      netPnl == unrealizedPnl + realizedPnl - fees
      percentage ==
        IF entryPrice > 0
        THEN [num |-> netPnl * 100, den |-> entryPrice * quantity]
        ELSE [num |-> 0, den |-> 1]
  IN [unrealizedPnl |-> unrealizedPnl, realizedPnl |-> realizedPnl,
      percentage |-> percentage, fees |-> fees, netPnl |-> netPnl]

\* `order_${Date.now()}_${Math.random().toString(36).substr(2, 9)}`
generateOrderId(now, rnd) == "order_" \o ToString(now) \o "_" \o rnd

\* validateOrder without the check of the symbol
validateOrder_NoSymbolCheck(order) ==
  (IF ~TruthyStr(order, "type") THEN <<"Order type is required">> ELSE <<>>)
  \o (IF ~TruthyStr(order, "side") THEN <<"Order side is required">> ELSE <<>>)
  \o (IF ~Has(order, "price") \/ order.price <= 0
      THEN <<"Valid price is required">> ELSE <<>>)
  \o (IF ~Has(order, "quantity") \/ order.quantity <= 0
      THEN <<"Valid quantity is required">> ELSE <<>>)

\* validateOrder that accepts a quantity of zero
validateOrder_ZeroQuantityOk(order) ==
  (IF ~TruthyStr(order, "type") THEN <<"Order type is required">> ELSE <<>>)
  \o (IF ~TruthyStr(order, "side") THEN <<"Order side is required">> ELSE <<>>)
  \o (IF ~Has(order, "price") \/ order.price <= 0
      THEN <<"Valid price is required">> ELSE <<>>)
  \o (IF ~Has(order, "quantity") \/ order.quantity < 0
      THEN <<"Valid quantity is required">> ELSE <<>>)
  \o (IF ~TruthyStr(order, "symbol") THEN <<"Symbol is required">> ELSE <<>>)

validateOrder(order) ==
  (IF ~TruthyStr(order, "type") THEN <<"Order type is required">> ELSE <<>>)
  \o (IF ~TruthyStr(order, "side") THEN <<"Order side is required">> ELSE <<>>)
  \o (IF ~Has(order, "price") \/ order.price <= 0
      THEN <<"Valid price is required">> ELSE <<>>)
  \o (IF ~Has(order, "quantity") \/ order.quantity <= 0
      THEN <<"Valid quantity is required">> ELSE <<>>)
  \o (IF ~TruthyStr(order, "symbol") THEN <<"Symbol is required">> ELSE <<>>)

\* priorities[order.type] || 999
getOrderPriority(order) ==
  CASE order.type = "entry" -> 1
    [] order.type = "market" -> 2
    [] order.type = "limit" -> 3
    [] order.type = "stop_loss" -> 4
    [] order.type = "take_profit" -> 5
    [] OTHER -> 999

\* the comparator of sortOrders: negative when a goes before b
compareOrders(a, b) ==
  LET priorityDiff == getOrderPriority(a) - getOrderPriority(b)
  IN IF priorityDiff # 0 THEN priorityDiff ELSE a.price - b.price

\* sortOrders that compares the prices only
sortOrders_ByPriceOnly(array) ==
  LET place(i) ==
        1 + Cardinality({j \in 1..Len(array) :
                           \/ array[j].price - array[i].price < 0
                           \/ array[j].price - array[i].price = 0 /\ j < i})
  IN [k \in 1..Len(array) |-> array[CHOOSE i \in 1..Len(array) : place(i) = k]]

\* orders.sort(comparator): Array.prototype.sort is stable, so the place of an
\* element is the number of elements the comparator puts before it, or beside
\* it from an earlier index
sortOrders(array) ==
  LET place(i) ==
        1 + Cardinality({j \in 1..Len(array) :
                           \/ compareOrders(array[j], array[i]) < 0
                           \/ compareOrders(array[j], array[i]) = 0 /\ j < i})
  IN [k \in 1..Len(array) |-> array[CHOOSE i \in 1..Len(array) : place(i) = k]]

isOrderDraggable(order) == order.status = "pending"

shouldShowCancelButton(order) ==
  order.status = "pending" \/ order.status = "partially_filled"

\* Math.abs
Abs(x) == IF x < 0 THEN -x ELSE x

\* calculateRiskAmount that keeps the sign of the difference
calculateRiskAmount_Signed(order, args) ==
  IF order.type # "stop_loss" \/ ~TruthyNum(args, "entryPrice") THEN 0
  ELSE (args.entryPrice - order.price) * order.quantity

\* the optional parameter entryPrice is the field of args when it is given
calculateRiskAmount(order, args) ==
  IF order.type # "stop_loss" \/ ~TruthyNum(args, "entryPrice") THEN 0
  ELSE LET priceDiff == Abs(args.entryPrice - order.price)
       IN priceDiff * order.quantity

calculateProfitTarget(order, args) ==
  IF order.type # "take_profit" \/ ~TruthyNum(args, "entryPrice") THEN 0
  ELSE LET priceDiff == Abs(order.price - args.entryPrice)
       IN priceDiff * order.quantity

-----------------------------------------------------------------------------
(* The engine's state as one value, so that a method is a function from the *)
(* state before the call to the state after it.  raised is "" while the     *)
(* call has not thrown; ret is the id addOrder returns; created is what the  *)
(* host's createOverlay returned.                                           *)

State ==
  [orders |-> orders, overlayIds |-> overlayIds, callbacks |-> callbacks,
   theme |-> theme, chart |-> chart, currentPrice |-> currentPrice,
   overlays |-> overlays, nextOverlay |-> nextOverlay,
   log |-> <<>>, raised |-> "", ret |-> "", created |-> 0]

NoData == <<>>

\* one entry of the log: a host call ("host.create", "host.override",
\* "host.remove"), a store write ("store.set", "store.delete") or the call of
\* a subscriber's handler (k is the handler's name); held and bound say
\* whether the store and the binding map hold id at that moment
Entry(s, k, sub, id, ev, data) ==
  [k |-> k, sub |-> sub, id |-> id, ev |-> ev, data |-> data,
   held |-> MapHas(s.orders, id), bound |-> MapHas(s.overlayIds, id)]

Record(s, k, sub, id, ev, data) ==
  [s EXCEPT !.log = Append(@, Entry(s, k, sub, id, ev, data))]

Throw(s, message) == [s EXCEPT !.raised = message]

\* a value returned to the caller that is not an order id: it is put in the log
Return(s, value) == Record(s, "return", "", "", "", [value |-> value])

\* the value the last call or handler returned
Returned(l) == l[Len(l)].data.value

-----------------------------------------------------------------------------
(* The host chart (klinecharts Chart), as the engine uses it *)

\* chart.createOverlay({name, points, extendData}): the new overlay's id, or
\* null (0) when the host creates nothing
createOverlay(s, id, points, extendData, hostOk) ==
  IF hostOk
  THEN LET h == s.nextOverlay
           s1 == [s EXCEPT !.overlays = (h :> [points |-> points, extendData |-> extendData]) @@ @,
                           !.nextOverlay = @ + 1,
                           !.created = h]
       IN Record(s1, "host.create", "", id, "", [overlayId |-> h])
  ELSE Record([s EXCEPT !.created = 0], "host.create", "", id, "", [overlayId |-> 0])

\* chart.overrideOverlay({id, points, extendData}): overwrites the fields of
\* the overlay with that id, if the host has one
overrideOverlay(s, id, h, points, extendData) ==
  LET s1 == IF h \in DOMAIN s.overlays
            THEN [s EXCEPT !.overlays[h] = [points |-> points, extendData |-> extendData]]
            ELSE s
  IN Record(s1, "host.override", "", id, "", [overlayId |-> h])

\* chart.removeOverlay(id)
removeOverlay(s, id, h) ==
  LET s1 == [s EXCEPT !.overlays = [x \in DOMAIN @ \ {h} |-> @[x]]]
  IN Record(s1, "host.remove", "", id, "", [overlayId |-> h])

-----------------------------------------------------------------------------
(* OrderManagerImpl *)

\* callbacks.forEach(callback => { if (callback[handler]) callback[handler](...) })
\* Array.prototype.forEach visits the indices below the length the array had
\* when the loop started, and skips an index the array no longer has
RECURSIVE forEachCallback(_, _, _, _, _, _, _)
RECURSIVE removeOrder(_, _)
RECURSIVE removeCallback(_, _)

\* what a subscriber's handler does when the engine calls it with orderId: a
\* subscriber without a `react` field only observes; the others call back
\* into the engine before they return
React(s, callback, orderId) ==
  IF ~Has(callback, "react") THEN s
  ELSE IF callback.react = "removeOrder" THEN removeOrder(s, orderId)
  ELSE IF callback.react = "removeCallback" THEN removeCallback(s, callback)
  ELSE s

forEachCallback(s, i, len, handler, id, ev, data) ==
  IF i > len THEN s
  ELSE IF i > Len(s.callbacks)
       THEN forEachCallback(s, i + 1, len, handler, id, ev, data)
       ELSE LET callback == s.callbacks[i]
                s1 == IF handler \in callback.handlers
                      THEN React(Record(s, handler, callback.name, id, ev, data),
                                 callback, id)
                      ELSE s
            IN forEachCallback(s1, i + 1, len, handler, id, ev, data)

notifyCallbacks(s, orderId, event, order) ==
  forEachCallback(s, 1, Len(s.callbacks), "onOrderEvent", orderId, event, order)

\* { ...order, currentPrice, pnlResult, theme: orderStyle }
OrderOverlayData(s, order) ==
  Spread(order,
         [currentPrice |-> s.currentPrice,
          pnlResult |-> calculatePnL(order, s.currentPrice),
          theme |-> getOrderStyle(s.theme, order.side, order.type)])

OverlayPoints(order) == [value |-> order.price, timestamp |-> order.timestamp]

createOrderOverlay(s, order, hostOk) ==
  IF ~s.chart THEN s
  ELSE LET s1 == createOverlay(s, order.id, OverlayPoints(order),
                               OrderOverlayData(s, order), hostOk)
           overlayId == s1.created
       IN IF overlayId # 0
          THEN [s1 EXCEPT !.overlayIds = MapSet(@, order.id, overlayId)]
          ELSE s1

updateOrderOverlay(s, order) ==
  IF ~s.chart THEN s
  ELSE IF ~MapHas(s.overlayIds, order.id) THEN s
  ELSE overrideOverlay(s, order.id, MapGet(s.overlayIds, order.id),
                       OverlayPoints(order), OrderOverlayData(s, order))

\* the fields addOrder copies from the options into the stored order
CreatedFields ==
  {"type", "side", "price", "quantity", "symbol", "text", "entryPrice",
   "stopLoss", "takeProfit", "customData"}

\* addOrder that notifies before it stores the order and creates the overlay
addOrder_NotifiesFirst(s, orderOptions, now, rnd, hostOk) ==
  LET orderId == IF TruthyStr(orderOptions, "id") THEN orderOptions.id
                 ELSE generateOrderId(now, rnd)
      copied == [f \in CreatedFields \cap DOMAIN orderOptions |-> orderOptions[f]]
      order == Spread(copied,
                 [id |-> orderId,
                  status |-> IF TruthyStr(orderOptions, "status")
                             THEN orderOptions.status ELSE "pending",
                  timestamp |-> now])
      errors == validateOrder(order)
  IN IF Len(errors) > 0 THEN Throw(s, "Invalid order")
     ELSE LET s1 == notifyCallbacks(s, orderId, "created", order)
              s2 == [s1 EXCEPT !.orders = MapSet(@, orderId, order)]
              s3 == Record(s2, "store.set", "", orderId, "", order)
              s4 == createOrderOverlay(s3, order, hostOk)
          IN [s4 EXCEPT !.ret = orderId]

\* addOrder that takes the order back and raises when no primitive was bound
addOrder_RollsBackOnHostFailure(s, orderOptions, now, rnd, hostOk) ==
  LET orderId == IF TruthyStr(orderOptions, "id") THEN orderOptions.id
                 ELSE generateOrderId(now, rnd)
      copied == [f \in CreatedFields \cap DOMAIN orderOptions |-> orderOptions[f]]
      order == Spread(copied,
                 [id |-> orderId,
                  status |-> IF TruthyStr(orderOptions, "status")
                             THEN orderOptions.status ELSE "pending",
                  timestamp |-> now])
      errors == validateOrder(order)
  IN IF Len(errors) > 0 THEN Throw(s, "Invalid order")
     ELSE LET s1 == [s EXCEPT !.orders = MapSet(@, orderId, order)]
              s2 == Record(s1, "store.set", "", orderId, "", order)
              s3 == createOrderOverlay(s2, order, hostOk)
              s4 == notifyCallbacks(s3, orderId, "created", order)
          IN IF s3.overlayIds = s2.overlayIds
             THEN Throw([s3 EXCEPT !.orders = s.orders], "Overlay not created")
             ELSE [s4 EXCEPT !.ret = orderId]

addOrder(s, orderOptions, now, rnd, hostOk) ==
  LET orderId == IF TruthyStr(orderOptions, "id") THEN orderOptions.id
                 ELSE generateOrderId(now, rnd)
      copied == [f \in CreatedFields \cap DOMAIN orderOptions |-> orderOptions[f]]
      order == Spread(copied,
                 [id |-> orderId,
                  status |-> IF TruthyStr(orderOptions, "status")
                             THEN orderOptions.status ELSE "pending",
                  timestamp |-> now])
      errors == validateOrder(order)
  IN IF Len(errors) > 0 THEN Throw(s, "Invalid order")
     ELSE LET s1 == [s EXCEPT !.orders = MapSet(@, orderId, order)]
              s2 == Record(s1, "store.set", "", orderId, "", order)
              s3 == createOrderOverlay(s2, order, hostOk)
              s4 == notifyCallbacks(s3, orderId, "created", order)
          IN [s4 EXCEPT !.ret = orderId]

\* updateOrder that inserts the updates as a new order when the id is absent
updateOrder_Upsert(s, orderId, updates) ==
  LET order == IF MapHas(s.orders, orderId) THEN MapGet(s.orders, orderId) ELSE <<>>
      updatedOrder == Spread(order, updates)
      s1 == [s EXCEPT !.orders = MapSet(@, orderId, updatedOrder)]
      s2 == Record(s1, "store.set", "", orderId, "", updatedOrder)
  IN notifyCallbacks(s2, orderId, "updated", updatedOrder)

updateOrder(s, orderId, updates) ==
  IF ~MapHas(s.orders, orderId) THEN Throw(s, "Order not found")
  ELSE LET order == MapGet(s.orders, orderId)
           updatedOrder == Spread(order, updates)
           s1 == [s EXCEPT !.orders = MapSet(@, orderId, updatedOrder)]
           s2 == Record(s1, "store.set", "", orderId, "", updatedOrder)
           s3 == updateOrderOverlay(s2, updatedOrder)
       IN notifyCallbacks(s3, orderId, "updated", updatedOrder)

\* removeOrder without overlayIds.delete(orderId)
removeOrder_KeepsBinding(s, orderId) ==
  IF ~MapHas(s.orders, orderId) THEN s
  ELSE LET order == MapGet(s.orders, orderId)
           s1 == IF MapHas(s.overlayIds, orderId) /\ s.chart
                 THEN removeOverlay(s, orderId, MapGet(s.overlayIds, orderId))
                 ELSE s
           s2 == [s1 EXCEPT !.orders = MapDelete(@, orderId)]
           s3 == Record(s2, "store.delete", "", orderId, "", NoData)
       IN notifyCallbacks(s3, orderId, "cancelled", order)

\* removeOrder that throws when the id is absent
removeOrder_ThrowsWhenAbsent(s, orderId) ==
  IF ~MapHas(s.orders, orderId) THEN Throw(s, "Order not found")
  ELSE LET order == MapGet(s.orders, orderId)
           s1 == IF MapHas(s.overlayIds, orderId) /\ s.chart
                 THEN removeOverlay(s, orderId, MapGet(s.overlayIds, orderId))
                 ELSE s
           s2 == [s1 EXCEPT !.orders = MapDelete(@, orderId),
                            !.overlayIds = MapDelete(@, orderId)]
           s3 == Record(s2, "store.delete", "", orderId, "", NoData)
       IN notifyCallbacks(s3, orderId, "cancelled", order)

\* removeOrder that notifies before it deletes the record
removeOrder_NotifiesFirst(s, orderId) ==
  IF ~MapHas(s.orders, orderId) THEN s
  ELSE LET order == MapGet(s.orders, orderId)
           s1 == IF MapHas(s.overlayIds, orderId) /\ s.chart
                 THEN removeOverlay(s, orderId, MapGet(s.overlayIds, orderId))
                 ELSE s
           s2 == notifyCallbacks(s1, orderId, "cancelled", order)
           s3 == [s2 EXCEPT !.orders = MapDelete(@, orderId),
                            !.overlayIds = MapDelete(@, orderId)]
       IN Record(s3, "store.delete", "", orderId, "", NoData)

removeOrder(s, orderId) ==
  IF ~MapHas(s.orders, orderId) THEN s
  ELSE LET order == MapGet(s.orders, orderId)
           s1 == IF MapHas(s.overlayIds, orderId) /\ s.chart
                 THEN removeOverlay(s, orderId, MapGet(s.overlayIds, orderId))
                 ELSE s
           s2 == [s1 EXCEPT !.orders = MapDelete(@, orderId),
                            !.overlayIds = MapDelete(@, orderId)]
           s3 == Record(s2, "store.delete", "", orderId, "", NoData)
       IN notifyCallbacks(s3, orderId, "cancelled", order)

\* orderIds.forEach(orderId => this.removeOrder(orderId))
RECURSIVE removeEach(_, _, _)
removeEach(s, orderIds, i) ==
  IF i > Len(orderIds) THEN s
  ELSE removeEach(removeOrder(s, orderIds[i]), orderIds, i + 1)

\* clearAllOrders that empties both maps at once and fires one event
clearAllOrders_Batch(s) ==
  IF s.orders = EmptyMap THEN s
  ELSE LET first == s.orders[1]
           s1 == [s EXCEPT !.orders = EmptyMap, !.overlayIds = EmptyMap]
       IN notifyCallbacks(s1, first.key, "cancelled", first.value)

clearAllOrders(s) == removeEach(s, MapKeySeq(s.orders), 1)

\* sortOrders(Array.from(this.orders.values()))
getAllOrders(s) == Return(s, sortOrders([i \in 1..Len(s.orders) |-> s.orders[i].value]))

\* this.orders.forEach(order => this.updateOrderOverlay(order))
RECURSIVE refreshEach(_, _)
refreshEach(s, i) ==
  IF i > Len(s.orders) THEN s
  ELSE refreshEach(updateOrderOverlay(s, s.orders[i].value), i + 1)

refreshAllOrders(s) == refreshEach(s, 1)

updateCurrentPrice(s, price) == refreshAllOrders([s EXCEPT !.currentPrice = price])

\* this.theme = { ...this.theme, ...theme }; this.refreshAllOrders()
setTheme(s, t) == refreshAllOrders([s EXCEPT !.theme = Spread(@, t)])

getOrder(s, orderId) ==
  IF MapHas(s.orders, orderId) THEN MapGet(s.orders, orderId) ELSE NoData

setChart(s, c) == [s EXCEPT !.chart = c]

addCallback(s, callback) == [s EXCEPT !.callbacks = Append(@, callback)]

\* indexOf, then splice(index, 1): the first entry that is the same object
removeCallback(s, callback) ==
  IF \E i \in 1..Len(s.callbacks) : s.callbacks[i] = callback
  THEN LET index == CHOOSE i \in 1..Len(s.callbacks) :
                      /\ s.callbacks[i] = callback
                      /\ \A j \in 1..(i - 1) : s.callbacks[j] # callback
       IN [s EXCEPT !.callbacks =
             [j \in 1..(Len(@) - 1) |-> IF j < index THEN @[j] ELSE @[j + 1]]]
  ELSE s

\* handleOrderCancel that updates the order before it notifies onCancel
handleOrderCancel_UpdatesFirst(s, orderId) ==
  IF ~MapHas(s.orders, orderId) THEN s
  ELSE LET s1 == updateOrder(s, orderId, [status |-> "cancelled"])
       IN forEachCallback(s1, 1, Len(s1.callbacks), "onCancel", orderId, "", NoData)

handleOrderCancel(s, orderId) ==
  IF ~MapHas(s.orders, orderId) THEN s
  ELSE LET s1 == forEachCallback(s, 1, Len(s.callbacks), "onCancel", orderId, "", NoData)
       IN updateOrder(s1, orderId, [status |-> "cancelled"])

handlePriceChange(s, orderId, newPrice, oldPrice) ==
  IF ~MapHas(s.orders, orderId) THEN s
  ELSE LET order == Spread(MapGet(s.orders, orderId), [price |-> newPrice])
           s1 == [s EXCEPT !.orders = MapSet(@, orderId, order)]
           s2 == Record(s1, "store.set", "", orderId, "", order)
           s3 == forEachCallback(s2, 1, Len(s2.callbacks), "onPriceChange", orderId, "",
                                 [newPrice |-> newPrice, oldPrice |-> oldPrice])
       IN notifyCallbacks(s3, orderId, "dragged", order)

-----------------------------------------------------------------------------
(* The overlay template 'trading_order' (overlays/order-overlay.ts): the    *)
(* host calls these with one of its primitives                              *)

\* the host has moved the primitive's point to the candidate price
onPressedMoving(s, h, candidate) ==
  LET s0 == [s EXCEPT !.overlays[h].points.value = candidate]
      orderData == s0.overlays[h].extendData
  IN IF ~isOrderDraggable(orderData) THEN s0
     ELSE LET newPrice == s0.overlays[h].points.value
              oldPrice == orderData.price
              s1 == [s0 EXCEPT !.overlays[h].extendData.price = newPrice]
          IN handlePriceChange(s1, orderData.id, newPrice, oldPrice)

\* the close button's onClick
onCancelClick(s, h) == handleOrderCancel(s, s.overlays[h].extendData.id)

onPressedMoveStart(s, h) ==
  LET orderData == s.overlays[h].extendData
  IN IF ~isOrderDraggable(orderData) THEN Return(s, FALSE) ELSE Return(s, TRUE)

\* console.log only
handleOrderDragEnd(s, orderId, finalPrice) == s

onPressedMoveEnd(s, h) ==
  LET orderData == s.overlays[h].extendData
  IN Return(handleOrderDragEnd(s, orderData.id, orderData.price), TRUE)

\* handleOrderClick that also notifies onCancel
handleOrderClick_AlsoCancels(s, orderId) ==
  LET s1 == forEachCallback(s, 1, Len(s.callbacks), "onOrderClick", orderId, "", NoData)
  IN forEachCallback(s1, 1, Len(s1.callbacks), "onCancel", orderId, "", NoData)

handleOrderClick(s, orderId) ==
  forEachCallback(s, 1, Len(s.callbacks), "onOrderClick", orderId, "", NoData)

onClick(s, h) == Return(handleOrderClick(s, s.overlays[h].extendData.id), TRUE)

\* order-overlay.ts holds two definitions of the template 'trading_order'; the
\* sources do not say which of them a build registers
TemplateDefinitions == {1, 2}

\* a secondary click on primitive h: the first definition's onRightClick
\* returns true; the second definition has no onRightClick, and the host then
\* applies its default, which removes the primitive
onRightClick(s, h, definition) ==
  IF definition = 1 THEN Return(s, TRUE)
  ELSE [s EXCEPT !.overlays = [x \in DOMAIN @ \ {h} |-> @[x]]]

-----------------------------------------------------------------------------
(* Inputs *)

Ids == {"a", "b"}

\* Math.random().toString(36).substr(2, 9)
Randoms == {"k3j9x2m1q"}

\* Date.now()
Times == {1}

Without(o, f) == [g \in DOMAIN o \ {f} |-> o[g]]

LimitBuy ==
  [type |-> "limit", side |-> "buy", price |-> 2, quantity |-> 1, symbol |-> "BTCUSDT"]

StopSell ==
  [type |-> "stop_loss", side |-> "sell", price |-> 1, quantity |-> 2,
   symbol |-> "BTCUSDT", status |-> "filled", entryPrice |-> 2]

ValidOptions ==
  {LimitBuy, Spread(LimitBuy, [id |-> "a"]), Spread(StopSell, [id |-> "b"])}

InvalidOptions ==
  {Without(LimitBuy, "type"), Without(LimitBuy, "side"), Without(LimitBuy, "symbol"),
   Without(LimitBuy, "price"), Spread(LimitBuy, [price |-> 0]),
   Spread(StopSell, [quantity |-> 0]), Without(StopSell, "quantity"),
   Spread(StopSell, [id |-> "a", price |-> -1])}

OrderOptions == ValidOptions \cup InvalidOptions

\* every id a call may name: the caller's and the generated ones
AllIds == Ids \cup {generateOrderId(now, rnd) : now \in Times, rnd \in Randoms}

Updates ==
  {[status |-> st] : st \in OrderStatus} \cup {[price |-> 3], [id |-> "b"]}

Candidates == {3}

\* onDragEnd is the handler the API document gives OrderCallback; the engine
\* never calls it
Subscribers ==
  {[name |-> "all", handlers |-> CallbackHandlers],
   [name |-> "events", handlers |-> {"onOrderEvent"}],
   [name |-> "pointer",
    handlers |-> {"onPriceChange", "onCancel", "onOrderClick", "onDragEnd"}]}

-----------------------------------------------------------------------------
(* The state machine *)

Init ==
  /\ orders = EmptyMap
  /\ overlayIds = EmptyMap
  /\ callbacks = <<>>
  /\ theme = defaultTheme
  /\ chart \in BOOLEAN
  /\ currentPrice = 0
  /\ overlays = <<>>
  /\ nextOverlay = 1
  /\ log = <<>>
  /\ handedOut = <<>>
  /\ calls = 0
  /\ last = [op |-> "constructor", id |-> "", raised |-> "", ret |-> ""]

\* the caller's references to order objects after a call of the engine that
\* ended in state s: `shared` says that the object is the very one the store
\* holds under id, `value` is what the caller reads from it.
\* handlePriceChange (reached from onPressedMoving only) assigns to the stored
\* object itself, so a shared reference shows the new price; every other
\* store write puts a new object under the key ({ ...order, ...updates } in
\* updateOrder, the literal in addOrder) or deletes the key, and the reference
\* keeps the old object
AfterCall(refs, s, op) ==
  [i \in 1..Len(refs) |->
     IF ~refs[i].shared THEN refs[i]
     ELSE IF op = "onPressedMoving"
          THEN IF MapHas(s.orders, refs[i].id)
               THEN [refs[i] EXCEPT !.value = MapGet(s.orders, refs[i].id)]
               ELSE refs[i]
          ELSE IF \E j \in 1..Len(s.log) :
                    /\ s.log[j].k \in {"store.set", "store.delete"}
                    /\ s.log[j].id = refs[i].id
               THEN [refs[i] EXCEPT !.shared = FALSE]
               ELSE refs[i]]

Commit(s, op, id) ==
  /\ calls < MaxCalls
  /\ handedOut' = AfterCall(handedOut, s, op)
  /\ calls' = calls + 1
  /\ orders' = s.orders
  /\ overlayIds' = s.overlayIds
  /\ callbacks' = s.callbacks
  /\ theme' = s.theme
  /\ chart' = s.chart
  /\ currentPrice' = s.currentPrice
  /\ overlays' = s.overlays
  /\ nextOverlay' = s.nextOverlay
  /\ log' = s.log
  /\ last' = [op |-> op, id |-> id, raised |-> s.raised, ret |-> s.ret]

OptionsId(orderOptions) == IF Has(orderOptions, "id") THEN orderOptions.id ELSE ""

AddOrderWith(orderOptions, now, rnd, hostOk) ==
  \* a generated id that is already held needs the same millisecond and the
  \* same nine random characters: that draw is left out
  /\ Has(orderOptions, "id") \/ ~MapHas(orders, generateOrderId(now, rnd))
  /\ Commit(addOrder(State, orderOptions, now, rnd, hostOk), "addOrder",
            OptionsId(orderOptions))

AddOrder ==
  \E orderOptions \in OrderOptions, now \in Times, rnd \in Randoms, hostOk \in BOOLEAN :
    AddOrderWith(orderOptions, now, rnd, hostOk)

UpdateOrderWith(orderId, updates) ==
  Commit(updateOrder(State, orderId, updates), "updateOrder", orderId)

UpdateOrder ==
  \E orderId \in AllIds, updates \in Updates : UpdateOrderWith(orderId, updates)

RemoveOrderWith(orderId) ==
  Commit(removeOrder(State, orderId), "removeOrder", orderId)

RemoveOrder == \E orderId \in AllIds : RemoveOrderWith(orderId)

ClearAllOrders == Commit(clearAllOrders(State), "clearAllOrders", "")

SetChart ==
  \E c \in BOOLEAN : Commit(setChart(State, c), "setChart", "")

AddCallback ==
  \E callback \in Subscribers :
    Commit(addCallback(State, callback), "addCallback", callback.name)

RemoveCallback ==
  \E callback \in Subscribers :
    Commit(removeCallback(State, callback), "removeCallback", callback.name)

PressedMovingWith(h, candidate) ==
  Commit(onPressedMoving(State, h, candidate), "onPressedMoving",
         overlays[h].extendData.id)

PressedMoving ==
  \E h \in DOMAIN overlays, candidate \in Candidates : PressedMovingWith(h, candidate)

CancelClickWith(h) ==
  Commit(onCancelClick(State, h), "onCancelClick", overlays[h].extendData.id)

CancelClick == \E h \in DOMAIN overlays : CancelClickWith(h)

Next ==
  \/ AddOrder
  \/ UpdateOrder
  \/ RemoveOrder
  \/ ClearAllOrders
  \/ SetChart
  \/ AddCallback
  \/ RemoveCallback
  \/ PressedMoving
  \/ CancelClick

Spec == Init /\ [][Next]_vars

PressedMoveStartWith(h) ==
  Commit(onPressedMoveStart(State, h), "onPressedMoveStart", overlays[h].extendData.id)

PressedMoveStart == \E h \in DOMAIN overlays : PressedMoveStartWith(h)

PressedMoveEndWith(h) ==
  Commit(onPressedMoveEnd(State, h), "onPressedMoveEnd", overlays[h].extendData.id)

PressedMoveEnd == \E h \in DOMAIN overlays : PressedMoveEndWith(h)

ClickWith(h) == Commit(onClick(State, h), "onClick", overlays[h].extendData.id)

Click == \E h \in DOMAIN overlays : ClickWith(h)

RightClickWith(h, definition) ==
  Commit(onRightClick(State, h, definition), "onRightClick", overlays[h].extendData.id)

RightClick ==
  \E h \in DOMAIN overlays, definition \in TemplateDefinitions :
    RightClickWith(h, definition)

\* the engine's operations together with every pointer event of the host
PointerNext ==
  \/ Next
  \/ PressedMoveStart
  \/ PressedMoveEnd
  \/ Click
  \/ RightClick

PointerSpec == Init /\ [][PointerNext]_vars

-----------------------------------------------------------------------------
(* Subscribers that call back into the engine while an event is dispatched *)

\* "canceller" removes the order it is told to cancel; "once" unsubscribes
\* itself when it has received an event
ReentrantSubscribers ==
  {[name |-> "canceller", handlers |-> {"onCancel"}, react |-> "removeOrder"],
   [name |-> "once", handlers |-> {"onOrderEvent", "onCancel", "onOrderClick"},
    react |-> "removeCallback"]}

Subscribe ==
  \E callback \in ReentrantSubscribers :
    Commit(addCallback(State, callback), "addCallback", callback.name)

ReentrantNext ==
  \/ PointerNext
  \/ Subscribe

ReentrantSpec == Init /\ [][ReentrantNext]_vars

-----------------------------------------------------------------------------
(* A caller that keeps the order objects getOrder returns and writes to them *)

\* a call made by the caller's own code: as Commit, with the references the
\* caller holds afterwards given by refs
CommitCaller(s, op, id, refs) ==
  /\ calls < MaxCalls
  /\ calls' = calls + 1
  /\ orders' = s.orders
  /\ overlayIds' = s.overlayIds
  /\ callbacks' = s.callbacks
  /\ theme' = s.theme
  /\ chart' = s.chart
  /\ currentPrice' = s.currentPrice
  /\ overlays' = s.overlays
  /\ nextOverlay' = s.nextOverlay
  /\ log' = s.log
  /\ last' = [op |-> op, id |-> id, raised |-> s.raised, ret |-> s.ret]
  /\ handedOut' = refs

\* const order = manager.getOrder(orderId): this.orders.get(orderId), the
\* stored object itself, or undefined
GetOrder ==
  \E orderId \in AllIds :
    LET order == getOrder(State, orderId)
    IN CommitCaller(Return(State, order), "getOrder", orderId,
                    IF order = NoData THEN handedOut
                    ELSE Append(handedOut,
                                [id |-> orderId, shared |-> TRUE, value |-> order]))

\* order.price = price, on an object the caller holds: the store's record
\* changes with it when the object is the one the store holds
WritePrice ==
  \E i \in 1..Len(handedOut), price \in Candidates :
    LET ref == handedOut[i]
        order == [ref.value EXCEPT !.price = price]
        s == IF ref.shared
             THEN [State EXCEPT !.orders = MapSet(@, ref.id, order)]
             ELSE State
    IN CommitCaller(s, "order.price =", ref.id,
                    [handedOut EXCEPT ![i].value = order])

AliasNext ==
  \/ AddOrder
  \/ UpdateOrder
  \/ PressedMoving
  \/ GetOrder
  \/ WritePrice

AliasSpec == Init /\ [][AliasNext]_vars

-----------------------------------------------------------------------------
(* getAllOrders over stores of every content *)

MaxSorted == 3

SortPrices == {1, 2}

StoredOrder(id, type, side, status, price) ==
  [id |-> id, type |-> type, side |-> side, price |-> price, quantity |-> 2,
   symbol |-> "BTCUSDT", status |-> status, timestamp |-> 1]

\* the store after addOrder of one pending buy order per entry of the draw,
\* made with caller-supplied ids while no chart is attached
StoreOf(draw) ==
  [i \in 1..Len(draw) |->
     [key |-> "order_" \o ToString(i),
      value |-> StoredOrder("order_" \o ToString(i), draw[i][1], "buy", "pending",
                            draw[i][2])]]

SortInit ==
  \E n \in 0..MaxSorted :
    \E draw \in [1..n -> OrderType \X SortPrices] :
      /\ orders = StoreOf(draw)
      /\ overlayIds = EmptyMap
      /\ callbacks = <<>>
      /\ theme = defaultTheme
      /\ chart = FALSE
      /\ currentPrice = 0
      /\ overlays = <<>>
      /\ nextOverlay = 1
      /\ log = <<>>
      /\ handedOut = <<>>
      /\ calls = 0
      /\ last = [op |-> "constructor", id |-> "", raised |-> "", ret |-> ""]

GetAllOrders == Commit(getAllOrders(State), "getAllOrders", "")

SortNext == GetAllOrders

SortSpec == SortInit /\ [][SortNext]_vars

-----------------------------------------------------------------------------
(* calculatePnL over orders of every status, at every reference price *)

RefPrices == {1, 2, 3}

\* a field that an order may lack
Optional(f, values) == {<<>>} \cup {(f :> v) : v \in values}

\* the orders updateOrder can leave in the store under the id 'a': no call
\* checks the optional numbers, so that they may be zero or negative
PnLOrders ==
  {Spread(Spread(Spread(Spread(StoredOrder("a", "limit", side, status, 2), e), fp), fq), fe) :
     side \in OrderSide, status \in OrderStatus,
     e \in Optional("entryPrice", {-1, 0, 1, 3}), fp \in Optional("fillPrice", {0, 3}),
     fq \in Optional("fillQuantity", {0, 1}), fe \in Optional("fees", {1})}

\* one order, bound to a primitive of the attached chart
PnLInit ==
  \E order \in PnLOrders :
    /\ orders = <<[key |-> "a", value |-> order]>>
    /\ overlayIds = <<[key |-> "a", value |-> 1]>>
    /\ callbacks = <<>>
    /\ theme = defaultTheme
    /\ chart = TRUE
    /\ currentPrice = 0
    /\ overlays = <<[points |-> OverlayPoints(order),
                     extendData |-> OrderOverlayData([currentPrice |-> 0,
                                                      theme |-> defaultTheme], order)]>>
    /\ nextOverlay = 2
    /\ log = <<>>
    /\ handedOut = <<>>
    /\ calls = 0
    /\ last = [op |-> "constructor", id |-> "", raised |-> "", ret |-> ""]

UpdateCurrentPrice ==
  \E price \in RefPrices :
    Commit(updateCurrentPrice(State, price), "updateCurrentPrice", "")

PnLNext == UpdateCurrentPrice

PnLSpec == PnLInit /\ [][PnLNext]_vars

-----------------------------------------------------------------------------
(* Drag-moving events and price ticks on one bound order of every content *)

DragNext ==
  \/ PressedMoving
  \/ UpdateCurrentPrice

DragSpec == PnLInit /\ [][DragNext]_vars

-----------------------------------------------------------------------------
(* The functions of utils.ts a caller applies to an order or to a draft,   *)
(* beside an engine that holds one bound order                              *)

UtilsPrices == {1, 3}

UtilsOrders ==
  {StoredOrder("a", type, side, "pending", price) :
     type \in OrderType, side \in OrderSide, price \in UtilsPrices}

\* the entryPrice argument: not given, zero, below, between and above the prices
EntryArgs == Optional("entryPrice", {0, 1, 2, 3})

\* drafts with a blank or non-positive field beside those of addOrder
Drafts ==
  OrderOptions \cup
  {Spread(LimitBuy, [symbol |-> ""]), Spread(LimitBuy, [type |-> ""]),
   Spread(StopSell, [side |-> ""]), Spread(StopSell, [quantity |-> -1]),
   Spread(LimitBuy, [price |-> 0, quantity |-> 0]), <<>>,
   Spread(StopSell, [fees |-> 1, fillPrice |-> 3, text |-> "SL"])}

UtilsInit ==
  \E order \in UtilsOrders :
    /\ orders = <<[key |-> "a", value |-> order]>>
    /\ overlayIds = <<[key |-> "a", value |-> 1]>>
    /\ callbacks = <<[name |-> "all", handlers |-> CallbackHandlers]>>
    /\ theme = defaultTheme
    /\ chart = TRUE
    /\ currentPrice = 0
    /\ overlays = <<[points |-> OverlayPoints(order),
                     extendData |-> OrderOverlayData([currentPrice |-> 0,
                                                      theme |-> defaultTheme], order)]>>
    /\ nextOverlay = 2
    /\ log = <<>>
    /\ handedOut = <<>>
    /\ calls = 0
    /\ last = [op |-> "constructor", id |-> "", raised |-> "", ret |-> ""]

CalculateRiskAmountWith(orderId, args) ==
  Commit(Return(State, calculateRiskAmount(MapGet(orders, orderId), args)),
         "calculateRiskAmount", orderId)

CalculateRiskAmount ==
  \E orderId \in MapKeys(orders), args \in EntryArgs :
    CalculateRiskAmountWith(orderId, args)

CalculateProfitTargetWith(orderId, args) ==
  Commit(Return(State, calculateProfitTarget(MapGet(orders, orderId), args)),
         "calculateProfitTarget", orderId)

CalculateProfitTarget ==
  \E orderId \in MapKeys(orders), args \in EntryArgs :
    CalculateProfitTargetWith(orderId, args)

ValidateOrderWith(draft) ==
  Commit(Return(State, validateOrder(draft)), "validateOrder", "")

ValidateOrder == \E draft \in Drafts : ValidateOrderWith(draft)

UtilsNext == CalculateRiskAmount \/ CalculateProfitTarget \/ ValidateOrder

UtilsSpec == UtilsInit /\ [][UtilsNext]_vars

-----------------------------------------------------------------------------
(* Themes: setTheme on an engine that holds one bound order, and mergeThemes *)

ThemeTypes == {"entry", "limit", "stopLoss", "takeProfit", "market"}

StyleFields == {"lineColor", "lineStyle"}

\* the style fields an override names: the colour, the line style or both
StyleOverrides ==
  {[lineColor |-> "#00ff88"], [lineStyle |-> "dotted"],
   [lineColor |-> "#00ff88", lineStyle |-> "dotted"]}

\* { [side]: { [type]: style } }
OverrideOf(side, type, style) == (side :> (type :> style))

\* the overrides of one (side, type), as the README's custom theme gives them
SingleOverrides ==
  {OverrideOf(side, type, style) :
     side \in OrderSide, type \in {"entry", "limit"}, style \in StyleOverrides}

ThemeOverrides == SingleOverrides \cup {lightTheme, darkTheme}

ThemeOrders ==
  {StoredOrder("a", "limit", "buy", "pending", 2),
   StoredOrder("a", "entry", "sell", "filled", 2)}

ThemeInit ==
  \E order \in ThemeOrders :
    /\ orders = <<[key |-> "a", value |-> order]>>
    /\ overlayIds = <<[key |-> "a", value |-> 1]>>
    /\ callbacks = <<>>
    /\ theme = defaultTheme
    /\ chart = TRUE
    /\ currentPrice = 0
    /\ overlays = <<[points |-> OverlayPoints(order),
                     extendData |-> OrderOverlayData([currentPrice |-> 0,
                                                      theme |-> defaultTheme], order)]>>
    /\ nextOverlay = 2
    /\ log = <<>>
    /\ handedOut = <<>>
    /\ calls = 0
    /\ last = [op |-> "constructor", id |-> "", raised |-> "", ret |-> ""]

SetThemeWith(t) == Commit(setTheme(State, t), "setTheme", "")

SetTheme == \E t \in ThemeOverrides : SetThemeWith(t)

MergeThemesWith(baseTheme, customTheme) ==
  Commit(Return(State, mergeThemes(baseTheme, customTheme)), "mergeThemes", "")

MergeThemes ==
  \E baseTheme \in {lightTheme, darkTheme}, customTheme \in ThemeOverrides :
    MergeThemesWith(baseTheme, customTheme)

ThemeNext == SetTheme \/ MergeThemes

ThemeSpec == ThemeInit /\ [][ThemeNext]_vars

-----------------------------------------------------------------------------
(* getOrderStyle over both sides and the five order types, beside an engine *)
(* that holds one bound order and switches between the built-in themes      *)

StyleOrders ==
  {StoredOrder("a", type, side, status, 2) :
     type \in OrderType, side \in OrderSide, status \in {"pending", "filled"}}

StyleInit ==
  \E order \in StyleOrders :
    /\ orders = <<[key |-> "a", value |-> order]>>
    /\ overlayIds = <<[key |-> "a", value |-> 1]>>
    /\ callbacks = <<>>
    /\ theme = defaultTheme
    /\ chart = TRUE
    /\ currentPrice = 0
    /\ overlays = <<[points |-> OverlayPoints(order),
                     extendData |-> OrderOverlayData([currentPrice |-> 0,
                                                      theme |-> defaultTheme], order)]>>
    /\ nextOverlay = 2
    /\ log = <<>>
    /\ handedOut = <<>>
    /\ calls = 0
    /\ last = [op |-> "constructor", id |-> "", raised |-> "", ret |-> ""]

GetOrderStyleWith(t, side, type) ==
  Commit(Return(State, getOrderStyle(t, side, type)), "getOrderStyle", type)

GetOrderStyle ==
  \E t \in {lightTheme, darkTheme}, side \in OrderSide, type \in OrderType :
    GetOrderStyleWith(t, side, type)

\* setTheme with one of the two built-in themes
SetBuiltInTheme == \E t \in {lightTheme, darkTheme} : SetThemeWith(t)

StyleNext ==
  \/ GetOrderStyle
  \/ SetBuiltInTheme

StyleSpec == StyleInit /\ [][StyleNext]_vars

-----------------------------------------------------------------------------
(* persistence.ts: the export of the order list as JSON and its import, and *)
(* the documented loop that hands every imported entry to addOrder          *)

\* the fields of an order whose values are numbers; the others hold strings
NumberFields ==
  {"price", "quantity", "timestamp", "entryPrice", "stopLoss", "takeProfit",
   "fillPrice", "fillQuantity", "fees"}

\* the numbers a JSON text of the model may spell
JsonNumbers == -1..9

\* JSON.stringify of one member: a number is written in decimal digits, a
\* string between quotes
JsonMember(f, value) ==
  IF f \in NumberFields
  THEN [json |-> "number", text |-> ToString(value)]
  ELSE [json |-> "string", text |-> value]

\* JSON.parse of one member
JsonValue(member) ==
  IF member.json = "number"
  THEN CHOOSE n \in JsonNumbers : ToString(n) = member.text
  ELSE member.text

\* JSON.stringify(orders, null, 2): an array of objects, one member per field
\* the order has
exportOrders(array) ==
  [array |-> TRUE,
   items |-> [i \in 1..Len(array) |->
                [f \in DOMAIN array[i] |-> JsonMember(f, array[i][f])]]]

\* JSON.parse, and the array when Array.isArray says it is one, [] otherwise
importOrders(jsonString) ==
  IF jsonString.array
  THEN [i \in 1..Len(jsonString.items) |->
          [f \in DOMAIN jsonString.items[i] |-> JsonValue(jsonString.items[i][f])]]
  ELSE <<>>

\* new OrderManagerImpl(null): an engine with an empty store beside the host
NewEngine(s) ==
  [s EXCEPT !.orders = EmptyMap, !.overlayIds = EmptyMap, !.callbacks = <<>>,
            !.theme = defaultTheme, !.chart = FALSE, !.currentPrice = 0]

\* importedOrders.forEach((order) => chart.setOrder(order)): an entry that
\* addOrder refuses ends the loop with its exception
RECURSIVE setOrderEach(_, _, _, _, _)
setOrderEach(s, importedOrders, i, now, rnd) ==
  IF i > Len(importedOrders) \/ s.raised # "" THEN s
  ELSE setOrderEach(addOrder(s, importedOrders[i], now, rnd, TRUE),
                    importedOrders, i + 1, now, rnd)

\* the export of getAllOrders() and the import of the text into a new engine
exportThenImport(s, now, rnd) ==
  LET orderList == Returned(getAllOrders(s).log)
      jsonString == exportOrders(orderList)
      importedOrders == importOrders(jsonString)
  IN setOrderEach(NewEngine(s), importedOrders, 1, now, rnd)

ImportTimes == {1, 2}

\* the orders addOrder and updateOrder can leave in a store under an id
ImportOrdersOf(id) ==
  {Spread(Spread(Spread(StoredOrder(id, type, "buy", status, price), e), fp), fe) :
     type \in {"limit", "entry"}, status \in {"pending", "filled"},
     price \in {0, 2}, e \in Optional("entryPrice", {1}),
     fp \in {<<>>, [fillPrice |-> 3, fillQuantity |-> 1]},
     fe \in Optional("fees", {1})}

ImportInit ==
  \E a \in ImportOrdersOf("a") :
    \E rest \in {<<>>} \cup {<<[key |-> "b", value |-> b]>> : b \in ImportOrdersOf("b")} :
      /\ orders = <<[key |-> "a", value |-> a]>> \o rest
      /\ overlayIds = EmptyMap
      /\ callbacks = <<>>
      /\ theme = defaultTheme
      /\ chart = FALSE
      /\ currentPrice = 0
      /\ overlays = <<>>
      /\ nextOverlay = 1
      /\ log = <<>>
      /\ handedOut = <<>>
      /\ calls = 0
      /\ last = [op |-> "constructor", id |-> "", raised |-> "", ret |-> ""]

ExportThenImportWith(now, rnd) ==
  Commit(exportThenImport(State, now, rnd), "importOrders", "")

ExportThenImport ==
  \E now \in ImportTimes, rnd \in Randoms : ExportThenImportWith(now, rnd)

ImportNext == ExportThenImport

ImportSpec == ImportInit /\ [][ImportNext]_vars

-----------------------------------------------------------------------------
(* What a call left in the log *)

\* the host was asked to create a primitive and returned no id
HostReturnedNull(l) ==
  \E i \in 1..Len(l) : l[i].k = "host.create" /\ l[i].data.overlayId = 0

\* nothing of the engine or of the host changed
NothingMutated ==
  /\ orders' = orders
  /\ overlayIds' = overlayIds
  /\ callbacks' = callbacks
  /\ theme' = theme
  /\ chart' = chart
  /\ currentPrice' = currentPrice
  /\ overlays' = overlays
  /\ nextOverlay' = nextOverlay

-----------------------------------------------------------------------------
(* C1 *)

\* C1 as stated: after any sequence of addOrder, updateOrder, removeOrder,
\* clearAllOrders, drag and cancel events, the ids that have an overlay binding
\* are exactly the ids held in the store.
C1_BindingIffOrder == MapKeys(overlayIds) = MapKeys(orders)

\* C1, amended: every id that has an overlay binding is held in the store, and
\* an order is held without a binding only from an addOrder during which no
\* chart was attached or the host returned no overlay id; a binding stays
\* until its order is removed.
C1_BindingOnlyWhileOrder ==
  /\ MapKeys(overlayIds) \subseteq MapKeys(orders)
  /\ [][/\ MapKeys(overlayIds') \subseteq MapKeys(orders')
        /\ \A id \in MapKeys(orders') \ MapKeys(overlayIds') :
             /\ ~MapHas(overlayIds, id)
             /\ \/ MapHas(orders, id)
                \/ /\ last'.op = "addOrder"
                   /\ last'.ret = id
                   /\ ~chart \/ HostReturnedNull(log')]_vars

\* an order with its binding beside an order the host created nothing for
C1_Witness ==
  /\ \E id \in MapKeys(orders) : MapHas(overlayIds, id)
  /\ \E id \in MapKeys(orders) : ~MapHas(overlayIds, id)
  /\ last.op \in {"updateOrder", "onPressedMoving", "onCancelClick", "removeOrder"}

-----------------------------------------------------------------------------
(* C2 *)

\* C2 as stated: the id a successful addOrder returns, generated or supplied,
\* differs from the id of every order held before the call, so the store
\* grows by exactly 1.
C2_AddOrderGrowsStoreByOne ==
  [][last'.op = "addOrder" /\ last'.raised = ""
       => /\ ~MapHas(orders, last'.ret)
          /\ MapSize(orders') = MapSize(orders) + 1]_vars

-----------------------------------------------------------------------------
(* C3 *)

\* the drafts the claim calls invalid: a required field is missing, or the
\* price or the quantity is not positive
DraftFailsValidation(draft) ==
  \/ ~TruthyStr(draft, "type")
  \/ ~TruthyStr(draft, "side")
  \/ ~TruthyStr(draft, "symbol")
  \/ ~Has(draft, "price")
  \/ ~Has(draft, "quantity")
  \/ draft.price <= 0
  \/ draft.quantity <= 0

\* C3: addOrder with a draft that fails validation raises and mutates nothing:
\* store, binding map and host primitives are unchanged, the host is not
\* called and no subscriber is notified.
C3_InvalidDraftMutatesNothing ==
  [][last'.op = "addOrder" =>
       \A orderOptions \in OrderOptions, now \in Times, rnd \in Randoms, hostOk \in BOOLEAN :
         DraftFailsValidation(orderOptions) /\ AddOrderWith(orderOptions, now, rnd, hostOk)
           => /\ last'.raised # ""
              /\ NothingMutated
              /\ log' = <<>>]_vars

\* an invalid draft was refused while the store held an order, a chart was
\* attached and a subscriber was registered
C3_Witness ==
  /\ last.op = "addOrder"
  /\ last.raised # ""
  /\ MapSize(orders) > 0
  /\ Len(callbacks) > 0
  /\ chart

-----------------------------------------------------------------------------
(* C4 *)

Registrations(cbs, name) == Cardinality({i \in 1..Len(cbs) : cbs[i].name = name})

CallsOf(l, handler, name, id, ev) ==
  Len(SelectSeq(l, LAMBDA e : e.k = handler /\ e.sub = name /\ e.id = id /\ e.ev = ev))

\* l holds, about id and ev, one call of `handler` per registration of a
\* subscriber that implements it and none for the others
DeliveredOnceToEach(l, cbs, handler, id, ev) ==
  \A c \in Subscribers :
    CallsOf(l, handler, c.name, id, ev) =
      IF handler \in c.handlers THEN Registrations(cbs, c.name) ELSE 0

\* every call of `handler` in l is about id and ev
OnlyAbout(l, handler, id, ev) ==
  \A i \in 1..Len(l) : l[i].k = handler => l[i].id = id /\ l[i].ev = ev

\* the lifecycle events in l
LifecycleEvents(l) == SelectSeq(l, LAMBDA e : e.k = "onOrderEvent")

-----------------------------------------------------------------------------
(* C5 *)

\* C5: updateOrder on an id that is not in the store raises and leaves the
\* store, the binding map and the host primitives unchanged, calls the host
\* not at all and notifies no subscriber.
C5_UpdateOfAbsentIdRaises ==
  [][last'.op = "updateOrder" /\ ~MapHas(orders, last'.id)
       => /\ last'.raised # ""
          /\ NothingMutated
          /\ log' = <<>>]_vars

\* an update of an absent id was refused while another order was held and
\* bound, and a subscriber was registered
C5_Witness ==
  /\ last.op = "updateOrder"
  /\ last.raised # ""
  /\ MapSize(overlayIds) > 0
  /\ Len(callbacks) > 0
  /\ chart

-----------------------------------------------------------------------------
(* C6 *)

\* C6 as stated, for the calls made while a chart is attached: updateOrder on
\* an existing id stores the record merged from the previous one and the
\* update (the update's fields win), overwrites the payload and the anchor of
\* the overlay bound to that id with the merged record and leaves every other
\* primitive alone, and fires exactly one `updated` event carrying the merged
\* record; all other orders are unchanged.
C6_UpdateMergesAndRefreshes ==
  [][last'.op = "updateOrder" /\ MapHas(orders, last'.id) /\ chart =>
       \A updates \in Updates :
         UpdateOrderWith(last'.id, updates) =>
           LET id == last'.id
               merged == Spread(MapGet(orders, id), updates)
           IN /\ last'.raised = ""
              /\ orders' = MapSet(orders, id, merged)
              /\ overlayIds' = overlayIds
              /\ \A h \in DOMAIN overlays :
                   overlays'[h] =
                     IF MapHas(overlayIds, id) /\ MapGet(overlayIds, id) = h
                     THEN [points |-> OverlayPoints(merged),
                           extendData |-> OrderOverlayData(State, merged)]
                     ELSE overlays[h]
              /\ DeliveredOnceToEach(log', callbacks', "onOrderEvent", id, "updated")
              /\ OnlyAbout(log', "onOrderEvent", id, "updated")
              /\ \A i \in 1..Len(log') :
                   log'[i].k = "onOrderEvent" => log'[i].data = merged]_vars

-----------------------------------------------------------------------------
(* C7 *)

\* C7: removeOrder on an id that is not in the store does not raise, changes
\* neither the store nor the binding map nor the host's primitives, calls the
\* host not at all and fires no event; and in every reachable state a second
\* removeOrder of the same id leaves everything as the first one left it.
C7_RemoveOfAbsentIdIsNoOp ==
  /\ [](\A id \in AllIds :
          LET once == removeOrder(State, id)
          IN removeOrder(once, id) = once)
  /\ [][last'.op = "removeOrder" /\ ~MapHas(orders, last'.id)
          => /\ last'.raised = ""
             /\ NothingMutated
             /\ log' = <<>>]_vars

\* an id that is not held was removed while another order was held and bound
\* and a subscriber of lifecycle events was registered
C7_Witness ==
  /\ last.op = "removeOrder"
  /\ ~MapHas(orders, last.id)
  /\ log = <<>>
  /\ MapSize(overlayIds) > 0
  /\ \E i \in 1..Len(callbacks) : "onOrderEvent" \in callbacks[i].handlers
  /\ chart

-----------------------------------------------------------------------------
(* C8 *)

IndexesOf(l, k) == {i \in 1..Len(l) : l[i].k = k}

-----------------------------------------------------------------------------
(* C9 *)

\* the ids of the entries of kind k in l, in the order of l
IdsOf(l, k) ==
  LET sel == SelectSeq(l, LAMBDA e : e.k = k)
  IN [i \in 1..Len(sel) |-> sel[i].id]

\* l holds one `cancelled` event per order of the map `held` and subscriber of
\* lifecycle events, each carrying the record held and delivered after the
\* record was deleted, and no other lifecycle event
CancelledPerOrder(l, cbs, held) ==
  /\ \A id \in MapKeys(held) : DeliveredOnceToEach(l, cbs, "onOrderEvent", id, "cancelled")
  /\ \A i \in 1..Len(l) :
       l[i].k = "onOrderEvent" =>
         /\ l[i].ev = "cancelled"
         /\ MapHas(held, l[i].id)
         /\ l[i].data = MapGet(held, l[i].id)
         /\ ~l[i].held
         /\ \E j \in 1..(i - 1) : l[j].k = "store.delete" /\ l[j].id = l[i].id

-----------------------------------------------------------------------------
(* C10 *)

\* C10 as stated: under updateOrder calls and cancel-affordance events an order
\* whose status is cancelled or filled never returns to pending, and a
\* cancelled order never becomes filled.
C10_StatusNeverGoesBack ==
  [][last'.op \in {"updateOrder", "onCancelClick"} =>
       \A id \in MapKeys(orders) \cap MapKeys(orders') :
         LET before == MapGet(orders, id).status
             after == MapGet(orders', id).status
         IN /\ before \in {"cancelled", "filled"} => after # "pending"
            /\ before = "cancelled" => after # "filled"]_vars

-----------------------------------------------------------------------------
(* C11 *)

\* C11 as stated, for the queries made while a chart is attached: the
\* drag-start query on the primitive of a stored order answers yes if and only
\* if that order's status is pending.
C11_DragStartIffPending ==
  [][last'.op = "onPressedMoveStart" /\ chart =>
       \A h \in DOMAIN overlays :
         /\ PressedMoveStartWith(h)
         /\ MapHas(overlayIds, last'.id) /\ MapGet(overlayIds, last'.id) = h
         /\ MapHas(orders, last'.id)
         => Returned(log') = (MapGet(orders, last'.id).status = "pending")]_vars

-----------------------------------------------------------------------------
(* C12 *)

\* C12 as stated, for the events delivered while a chart is attached: for a
\* pending order, a drag-moving event with a candidate price sets the stored
\* order's price to the candidate and changes nothing else of the store,
\* notifies every price-change subscriber with the order id, the new price and
\* the price the order had before this move, and fires no `updated` event.
C12_DragMovesPendingOrder ==
  [][last'.op = "onPressedMoving" /\ chart =>
       \A h \in DOMAIN overlays, candidate \in Candidates :
         /\ PressedMovingWith(h, candidate)
         /\ MapHas(overlayIds, last'.id) /\ MapGet(overlayIds, last'.id) = h
         /\ MapHas(orders, last'.id)
         /\ MapGet(orders, last'.id).status = "pending"
         => LET id == last'.id
                order == MapGet(orders, id)
            IN /\ orders' = MapSet(orders, id, Spread(order, [price |-> candidate]))
               /\ DeliveredOnceToEach(log', callbacks', "onPriceChange", id, "")
               /\ \A i \in 1..Len(log') :
                    /\ log'[i].k = "onPriceChange" =>
                         /\ log'[i].id = id
                         /\ log'[i].data = [newPrice |-> candidate, oldPrice |-> order.price]
                    /\ log'[i].k = "onOrderEvent" => log'[i].ev # "updated"]_vars

-----------------------------------------------------------------------------
(* C13 *)

\* C13 as stated, for the events delivered while a chart is attached: a
\* drag-moving event on the primitive of a stored order whose status is not
\* pending leaves the store unchanged and notifies no subscriber.
C13_DragNeverMovesSettledOrder ==
  [][last'.op = "onPressedMoving" /\ chart =>
       \A h \in DOMAIN overlays :
         /\ overlays[h].extendData.id = last'.id
         /\ MapHas(overlayIds, last'.id) /\ MapGet(overlayIds, last'.id) = h
         /\ MapHas(orders, last'.id)
         /\ MapGet(orders, last'.id).status # "pending"
         => /\ orders' = orders
            /\ log' = <<>>]_vars

-----------------------------------------------------------------------------
(* C14 *)

\* C14 as stated: on the drag-end event every registered drag-end subscriber
\* is notified with the order id and the settled price, and the store is left
\* unchanged.
C14_DragEndNotifiesSubscribers ==
  [][last'.op = "onPressedMoveEnd" =>
       \A h \in DOMAIN overlays :
         PressedMoveEndWith(h) =>
           /\ DeliveredOnceToEach(log', callbacks', "onDragEnd", last'.id, "")
           /\ \A i \in 1..Len(log') :
                log'[i].k = "onDragEnd" =>
                  log'[i].data = [finalPrice |-> overlays[h].extendData.price]
           /\ orders' = orders]_vars

-----------------------------------------------------------------------------
(* C15 *)

-----------------------------------------------------------------------------
(* C16 *)

-----------------------------------------------------------------------------
(* C17 *)

\* C17 as stated: a secondary click on a primitive of the engine is reported
\* as handled, and no pointer event of the host removes a primitive or an
\* order.
C17_PointerEventsRemoveNothing ==
  [][last'.op \in {"onPressedMoveStart", "onPressedMoving", "onPressedMoveEnd",
                   "onClick", "onCancelClick", "onRightClick"} =>
       /\ DOMAIN overlays \subseteq DOMAIN overlays'
       /\ MapKeys(orders) \subseteq MapKeys(orders')
       /\ last'.op = "onRightClick" => log' # <<>> /\ Returned(log')]_vars

-----------------------------------------------------------------------------
(* C18 *)

\* the live primitives of the host whose payload carries the id
PrimitivesOf(id) == {h \in DOMAIN overlays : overlays[h].extendData.id = id}

\* C18 as stated: after any sequence of operations the host holds at most one
\* live primitive per order id that is in the store.
C18_OnePrimitivePerOrder ==
  \A id \in MapKeys(orders) : Cardinality(PrimitivesOf(id)) <= 1

-----------------------------------------------------------------------------
(* C19 *)

\* the type priority of the claim
TypeOrder == <<"entry", "market", "limit", "stop_loss", "take_profit">>

RankOf(type) == CHOOSE i \in 1..Len(TypeOrder) : TypeOrder[i] = type

\* C19: getAllOrders returns every stored order exactly once, sorted by the
\* type priority entry < market < limit < stop_loss < take_profit and, within
\* one type, by ascending price; a second call returns the same; the call
\* changes neither the store nor anything else and calls nobody.
C19_GetAllOrdersSorted ==
  [][last'.op = "getAllOrders" =>
       LET result == Returned(log')
       IN /\ last'.raised = ""
          /\ Len(result) = MapSize(orders)
          /\ \A id \in MapKeys(orders) :
               Cardinality({i \in 1..Len(result) : result[i] = MapGet(orders, id)}) = 1
          /\ \A i, j \in 1..Len(result) :
               i < j =>
                 \/ RankOf(result[i].type) < RankOf(result[j].type)
                 \/ /\ result[i].type = result[j].type
                    /\ result[i].price <= result[j].price
          /\ Returned(getAllOrders(State).log)' = result
          /\ NothingMutated
          /\ Len(log') = 1]_vars

\* three orders were returned in another order than they were inserted in:
\* two of one type with different prices, and one of another type
C19_Witness ==
  /\ last.op = "getAllOrders"
  /\ Len(Returned(log)) = 3
  /\ Returned(log) # [i \in 1..Len(orders) |-> orders[i].value]
  /\ \E i, j \in 1..3 :
       /\ Returned(log)[i].type = Returned(log)[j].type
       /\ Returned(log)[i].price < Returned(log)[j].price
  /\ \E i, j \in 1..3 :
       /\ Returned(log)[i].type # Returned(log)[j].type
       /\ Returned(log)[i].price > Returned(log)[j].price
       /\ i < j

-----------------------------------------------------------------------------
(* C20 *)

\* C20: for every order whose status is pending or cancelled and every
\* reference price calculatePnL returns unrealizedPnl = 0, and so does the
\* payload that updateCurrentPrice writes to the order's primitive.
C20_NoUnrealizedPnlUnlessFilled ==
  /\ [](\A id \in MapKeys(orders), price \in RefPrices \cup {0} :
          MapGet(orders, id).status \in {"pending", "cancelled"}
            => calculatePnL(MapGet(orders, id), price).unrealizedPnl = 0)
  /\ [][last'.op = "updateCurrentPrice" =>
          \A id \in MapKeys(orders') :
            MapGet(orders', id).status \in {"pending", "cancelled"}
              => LET payload == overlays'[MapGet(overlayIds', id)].extendData
                 IN /\ payload.currentPrice = currentPrice'
                    /\ payload.pnlResult = calculatePnL(MapGet(orders', id), currentPrice')
                    /\ payload.pnlResult.unrealizedPnl = 0]_vars

\* the reference price moved away from the entry price of a cancelled order
\* with fees: its payload shows the fees and no unrealized PnL
C20_Witness ==
  /\ last.op = "updateCurrentPrice"
  /\ MapGet(orders, "a").status = "cancelled"
  /\ Has(MapGet(orders, "a"), "entryPrice")
  /\ MapGet(orders, "a").entryPrice # currentPrice
  /\ overlays[1].extendData.pnlResult.unrealizedPnl = 0
  /\ overlays[1].extendData.pnlResult.netPnl # 0

-----------------------------------------------------------------------------
(* C21 .. C24: the numbers calculatePnL returns *)

\* the value of an optional field as the documentation reads it: the field
\* when the order has it, the fallback when it has not
PresentOr(order, f, fallback) == IF Has(order, f) THEN order[f] ELSE fallback

DocEntryPrice(order) == PresentOr(order, "entryPrice", order.price)

DocQuantity(order) == PresentOr(order, "fillQuantity", order.quantity)

\* the value of an optional number that counts only when it is present and
\* not zero
NonZeroOr(order, f, fallback) ==
  IF Has(order, f) /\ order[f] # 0 THEN order[f] ELSE fallback

UsedEntryPrice(order) == NonZeroOr(order, "entryPrice", order.price)

UsedQuantity(order) == NonZeroOr(order, "fillQuantity", order.quantity)

\* (to - from) * quantity for a buy order, its negation for a sell order
Directional(side, from, to, quantity) ==
  IF side = "buy" THEN (to - from) * quantity ELSE -((to - from) * quantity)

\* the payload of the primitive bound to the order id
PayloadOf(id) == overlays[MapGet(overlayIds, id)].extendData

\* C21 as stated: for a filled or partially_filled order unrealizedPnl is
\* (referencePrice - entryPrice) * effectiveQuantity for a buy order and the
\* negation of that for a sell order, entryPrice being order.entryPrice if
\* present else order.price and effectiveQuantity being fillQuantity if present
\* else quantity; updateCurrentPrice shows that number on the primitive.
C21_UnrealizedPnlOfFilledOrder ==
  /\ [](\A id \in MapKeys(orders), price \in RefPrices \cup {0} :
          LET order == MapGet(orders, id)
          IN order.status \in {"filled", "partially_filled"}
               => calculatePnL(order, price).unrealizedPnl =
                    Directional(order.side, DocEntryPrice(order), price,
                                DocQuantity(order)))
  /\ [][last'.op = "updateCurrentPrice" =>
          \A id \in MapKeys(orders') :
            LET order == MapGet(orders', id)
            IN order.status \in {"filled", "partially_filled"}
                 => PayloadOf(id)'.pnlResult.unrealizedPnl =
                      Directional(order.side, DocEntryPrice(order), currentPrice',
                                  DocQuantity(order))]_vars

\* C21: for a filled or partially_filled order unrealizedPnl is
\* (referencePrice - entryPrice) * effectiveQuantity for a buy order and the
\* negation of that for a sell order, entryPrice being order.entryPrice if
\* present and not zero, else order.price, and effectiveQuantity being
\* fillQuantity if present and not zero, else quantity; updateCurrentPrice
\* shows that number on the primitive.
C21_UnrealizedPnlOverNonZeroFields ==
  /\ [](\A id \in MapKeys(orders), price \in RefPrices \cup {0} :
          LET order == MapGet(orders, id)
          IN order.status \in {"filled", "partially_filled"}
               => calculatePnL(order, price).unrealizedPnl =
                    Directional(order.side, UsedEntryPrice(order), price,
                                UsedQuantity(order)))
  /\ [][last'.op = "updateCurrentPrice" =>
          \A id \in MapKeys(orders') :
            LET order == MapGet(orders', id)
            IN order.status \in {"filled", "partially_filled"}
                 => PayloadOf(id)'.pnlResult.unrealizedPnl =
                      Directional(order.side, UsedEntryPrice(order), currentPrice',
                                  UsedQuantity(order))]_vars

\* the reference price moved above the entry price of a partially filled sell
\* order whose entryPrice differs from its price and whose fillQuantity
\* differs from its quantity: its primitive shows the loss over the filled
\* quantity
C21_Witness ==
  /\ last.op = "updateCurrentPrice"
  /\ MapGet(orders, "a").status = "partially_filled"
  /\ MapGet(orders, "a").side = "sell"
  /\ TruthyNum(MapGet(orders, "a"), "entryPrice")
  /\ MapGet(orders, "a").entryPrice # MapGet(orders, "a").price
  /\ TruthyNum(MapGet(orders, "a"), "fillQuantity")
  /\ MapGet(orders, "a").fillQuantity # MapGet(orders, "a").quantity
  /\ currentPrice > MapGet(orders, "a").entryPrice
  /\ PayloadOf("a").pnlResult.unrealizedPnl =
       (MapGet(orders, "a").entryPrice - currentPrice) * MapGet(orders, "a").fillQuantity
  /\ PayloadOf("a").pnlResult.unrealizedPnl < 0

-----------------------------------------------------------------------------
(* C22 *)

-----------------------------------------------------------------------------
(* C23 *)

\* C23 as stated: realizedPnl is other than zero only when the status is filled and a
\* fillPrice is present, and then it is (fillPrice - entryPrice) *
\* effectiveQuantity for a buy order and its negation for a sell order; for
\* partially_filled, pending and cancelled orders, or without fillPrice, it
\* is 0.
C23_RealizedPnlOnlyWhenFilled ==
  [](\A id \in MapKeys(orders), price \in RefPrices \cup {0} :
       LET order == MapGet(orders, id)
           result == calculatePnL(order, price)
       IN IF order.status = "filled" /\ Has(order, "fillPrice")
          THEN result.realizedPnl =
                 Directional(order.side, DocEntryPrice(order), order.fillPrice,
                             DocQuantity(order))
          ELSE result.realizedPnl = 0)

\* C23: realizedPnl is other than zero only when the status is filled and a
\* fillPrice other than zero is present, and then it is (fillPrice -
\* entryPrice) * effectiveQuantity for a buy order and its negation for a
\* sell order, entryPrice and effectiveQuantity being the order's entryPrice
\* and fillQuantity when present and not zero and its price and quantity
\* otherwise; for partially_filled, pending and cancelled orders, or without
\* such a fillPrice, it is 0.
C23_RealizedPnlOnlyWhenFilledAtAPrice ==
  /\ [](\A id \in MapKeys(orders), price \in RefPrices \cup {0} :
          LET order == MapGet(orders, id)
              result == calculatePnL(order, price)
          IN IF order.status = "filled" /\ Has(order, "fillPrice")
                                       /\ order.fillPrice # 0
             THEN result.realizedPnl =
                    Directional(order.side, UsedEntryPrice(order), order.fillPrice,
                                UsedQuantity(order))
             ELSE result.realizedPnl = 0)
  /\ [][last'.op = "updateCurrentPrice" =>
          \A id \in MapKeys(orders') :
            PayloadOf(id)'.pnlResult.realizedPnl # 0
              => /\ MapGet(orders', id).status = "filled"
                 /\ TruthyNum(MapGet(orders', id), "fillPrice")]_vars

\* a filled buy order with a fillPrice above its entryPrice shows a realized
\* profit, whatever the reference price
C23_Witness ==
  /\ last.op = "updateCurrentPrice"
  /\ MapGet(orders, "a").status = "filled"
  /\ MapGet(orders, "a").side = "buy"
  /\ TruthyNum(MapGet(orders, "a"), "fillPrice")
  /\ TruthyNum(MapGet(orders, "a"), "entryPrice")
  /\ MapGet(orders, "a").fillPrice > MapGet(orders, "a").entryPrice
  /\ currentPrice # MapGet(orders, "a").fillPrice
  /\ PayloadOf("a").pnlResult.realizedPnl =
       (MapGet(orders, "a").fillPrice - MapGet(orders, "a").entryPrice)
         * UsedQuantity(MapGet(orders, "a"))
  /\ PayloadOf("a").pnlResult.realizedPnl > 0

-----------------------------------------------------------------------------
(* C24 *)

\* C24 as stated: netPnl = unrealizedPnl + realizedPnl - fees, fees being 0 when the
\* order has none, and percentage = netPnl / (entryPrice * effectiveQuantity)
\* * 100 when entryPrice > 0 and exactly 0 when entryPrice <= 0.  The
\* quotient is compared by cross-multiplication.
C24_NetPnlAndPercentage ==
  [](\A id \in MapKeys(orders), price \in RefPrices \cup {0} :
       LET order == MapGet(orders, id)
           result == calculatePnL(order, price)
           entryPrice == DocEntryPrice(order)
       IN /\ result.fees = PresentOr(order, "fees", 0)
          /\ result.netPnl = result.unrealizedPnl + result.realizedPnl - result.fees
          /\ IF entryPrice > 0
             THEN result.percentage.num * (entryPrice * DocQuantity(order))
                    = result.netPnl * 100 * result.percentage.den
             ELSE result.percentage.num = 0)

\* C24: netPnl = unrealizedPnl + realizedPnl - fees, fees being 0 when the
\* order has none, and percentage = netPnl / (entryPrice * effectiveQuantity)
\* * 100 when entryPrice > 0 and exactly 0 when entryPrice <= 0, entryPrice
\* and effectiveQuantity being the order's entryPrice and fillQuantity when
\* present and not zero and its price and quantity otherwise.  The quotient
\* is compared by cross-multiplication; updateCurrentPrice shows the numbers
\* on the primitive.
C24_NetPnlAndPercentageOverNonZeroFields ==
  /\ [](\A id \in MapKeys(orders), price \in RefPrices \cup {0} :
          LET order == MapGet(orders, id)
              result == calculatePnL(order, price)
              entryPrice == UsedEntryPrice(order)
          IN /\ result.fees = PresentOr(order, "fees", 0)
             /\ result.netPnl = result.unrealizedPnl + result.realizedPnl - result.fees
             /\ IF entryPrice > 0
                THEN result.percentage.num * (entryPrice * UsedQuantity(order))
                       = result.netPnl * 100 * result.percentage.den
                ELSE result.percentage.num = 0 /\ result.percentage.den # 0)
  /\ [][last'.op = "updateCurrentPrice" =>
          \A id \in MapKeys(orders') :
            PayloadOf(id)'.pnlResult = calculatePnL(MapGet(orders', id), currentPrice')]_vars

\* a filled order with a negative entryPrice and fees: its primitive shows a
\* net PnL other than zero and a percentage of zero
C24_Witness ==
  /\ last.op = "updateCurrentPrice"
  /\ MapGet(orders, "a").status = "filled"
  /\ Has(MapGet(orders, "a"), "entryPrice")
  /\ MapGet(orders, "a").entryPrice < 0
  /\ Has(MapGet(orders, "a"), "fees")
  /\ PayloadOf("a").pnlResult.netPnl # 0
  /\ PayloadOf("a").pnlResult.netPnl =
       PayloadOf("a").pnlResult.unrealizedPnl + PayloadOf("a").pnlResult.realizedPnl
         - MapGet(orders, "a").fees
  /\ PayloadOf("a").pnlResult.percentage.num = 0

-----------------------------------------------------------------------------
(* C25 *)

\* C25 as stated: calculateRiskAmount returns |entryPrice - order.price| *
\* quantity for a stop_loss order with an entry price, calculateProfitTarget
\* returns |order.price - entryPrice| * quantity for a take_profit order with
\* an entry price, and each returns 0 when no entry price is supplied or the
\* order is of any other type.
C25_RiskAmountAndProfitTarget ==
  [][\A orderId \in MapKeys(orders), args \in EntryArgs :
       LET order == MapGet(orders, orderId)
       IN /\ last'.op = "calculateRiskAmount" /\ CalculateRiskAmountWith(orderId, args)
               => Returned(log') =
                    IF order.type = "stop_loss" /\ Has(args, "entryPrice")
                    THEN Abs(args.entryPrice - order.price) * order.quantity
                    ELSE 0
          /\ last'.op = "calculateProfitTarget" /\ CalculateProfitTargetWith(orderId, args)
               => Returned(log') =
                    IF order.type = "take_profit" /\ Has(args, "entryPrice")
                    THEN Abs(order.price - args.entryPrice) * order.quantity
                    ELSE 0]_vars

\* C25: calculateRiskAmount returns |entryPrice - order.price| * quantity for
\* a stop_loss order with an entry price other than zero, calculateProfitTarget
\* returns |order.price - entryPrice| * quantity for a take_profit order with
\* an entry price other than zero, and each returns 0 when no entry price or
\* an entry price of zero is supplied or the order is of any other type;
\* neither changes anything.
C25_RiskAmountAndProfitTargetOverNonZeroEntry ==
  [][\A orderId \in MapKeys(orders), args \in EntryArgs :
       LET order == MapGet(orders, orderId)
           given == Has(args, "entryPrice") /\ args.entryPrice # 0
       IN /\ last'.op = "calculateRiskAmount" /\ CalculateRiskAmountWith(orderId, args)
               => /\ Returned(log') =
                       IF order.type = "stop_loss" /\ given
                       THEN Abs(args.entryPrice - order.price) * order.quantity
                       ELSE 0
                  /\ Returned(log') >= 0
                  /\ NothingMutated
                  /\ Len(log') = 1
          /\ last'.op = "calculateProfitTarget" /\ CalculateProfitTargetWith(orderId, args)
               => /\ Returned(log') =
                       IF order.type = "take_profit" /\ given
                       THEN Abs(order.price - args.entryPrice) * order.quantity
                       ELSE 0
                  /\ Returned(log') >= 0
                  /\ NothingMutated
                  /\ Len(log') = 1]_vars

\* the risk of a stop_loss order at the price 3 with the quantity 2 was asked
\* for an entry price below its price: it is the distance 2 times 2
C25_Witness ==
  /\ last.op = "calculateRiskAmount"
  /\ MapGet(orders, "a").type = "stop_loss"
  /\ MapGet(orders, "a").price = 3
  /\ MapGet(orders, "a").quantity = 2
  /\ Returned(log) = 4

-----------------------------------------------------------------------------
(* C26 *)

\* type, side and symbol are given and not blank, and price and quantity are
\* numbers above zero
Acceptable(draft) ==
  /\ Has(draft, "type") /\ draft.type # ""
  /\ Has(draft, "side") /\ draft.side # ""
  /\ Has(draft, "symbol") /\ draft.symbol # ""
  /\ Has(draft, "price") /\ draft.price > 0
  /\ Has(draft, "quantity") /\ draft.quantity > 0

-----------------------------------------------------------------------------
(* C27, C28: theme overrides *)

\* the field of the style of a (side, type) in a theme, "undefined" when the
\* theme has no such side, type or field
FieldOf(t, side, type, f) ==
  IF Has(t, side) /\ Has(t[side], type) /\ Has(t[side][type], f)
  THEN t[side][type][f]
  ELSE "undefined"

\* the theme has the override's value in every style field the override
\* names and the prior theme's value in every other field
OverrideOnlyNamedFields(after, before, override) ==
  \A side \in OrderSide, type \in ThemeTypes, f \in StyleFields :
    FieldOf(after, side, type, f) =
      IF FieldOf(override, side, type, f) # "undefined"
      THEN FieldOf(override, side, type, f)
      ELSE FieldOf(before, side, type, f)

\* C27: setTheme with a partial override for one (side, type) changes only
\* the style fields the override names: every other field of that style,
\* every other type of the same side and the whole other side stay equal to
\* the prior theme.
C27_SetThemeChangesOnlyNamedFields ==
  [][last'.op = "setTheme" =>
       \A override \in SingleOverrides :
         SetThemeWith(override) => OverrideOnlyNamedFields(theme', theme, override)]_vars

\* C28: mergeThemes(base, partial) returns a theme in which every style field
\* present in partial[side][type] has the partial's value and every style
\* field absent from the partial, the other fields of an overridden (side,
\* type) style included, has the base's value.
C28_MergeThemesKeepsAbsentFields ==
  [][last'.op = "mergeThemes" =>
       \A baseTheme \in {lightTheme, darkTheme}, customTheme \in ThemeOverrides :
         MergeThemesWith(baseTheme, customTheme)
           => OverrideOnlyNamedFields(Returned(log'), baseTheme, customTheme)]_vars

-----------------------------------------------------------------------------
(* C29 *)

\* the orders of a store as getAllOrders returns them
Listed(store) == sortOrders([i \in 1..Len(store) |-> store[i].value])

\* C29: exporting the store's order list and importing it into an empty
\* store by handing each entry to addOrder yields a store whose
\* getAllOrders() is element-wise equal by value to the original in every
\* field, fees, fillPrice, fillQuantity, id and timestamp included (every
\* exported entry has an id).
C29_ExportThenImportKeepsOrders ==
  [][last'.op = "importOrders" =>
       /\ Len(Listed(orders')) = Len(Listed(orders))
       /\ \A i \in 1..Len(Listed(orders)) : Listed(orders')[i] = Listed(orders)[i]]_vars

-----------------------------------------------------------------------------
(* C30 *)

\* the engine with a chart attached
Attached(s) == [s EXCEPT !.chart = TRUE]

-----------------------------------------------------------------------------
(* The refreshes: orders are added, updated and dragged while the reference *)
(* price and the theme change and the chart is attached and detached        *)

RefreshNext ==
  \/ AddOrder
  \/ UpdateOrder
  \/ SetChart
  \/ PressedMoving
  \/ UpdateCurrentPrice
  \/ SetBuiltInTheme

RefreshSpec == Init /\ [][RefreshNext]_vars

-----------------------------------------------------------------------------
(* C33 *)

HostEvents ==
  {"onCancelClick", "onPressedMoving", "onPressedMoveStart", "onPressedMoveEnd",
   "onClick", "onRightClick"}

\* C33: no event the host delivers (cancel-button activation, drag-moving,
\* drag-end, click) raises an error to the host, in any reachable state, also
\* when a subscriber calls back into the engine while the event is dispatched.
C33_HostEventsNeverRaise ==
  last.op \in HostEvents => last.raised = ""

-----------------------------------------------------------------------------
(* C40 *)

\* the operations that dispatch one lifecycle event to the subscribers
\* registered when they are called
OneEventOps == {"addOrder", "updateOrder", "removeOrder"}

\* C40: when a subscriber removes itself with removeCallback while a
\* lifecycle event is being dispatched, every other subscriber that was
\* registered when the dispatch started (and implements the lifecycle
\* handler) still receives that event, once per registration.
C40_UnsubscribeDuringDispatchSkipsNobody ==
  [][/\ last'.op \in OneEventOps
     /\ Len(LifecycleEvents(log')) > 0
     /\ Len(callbacks') < Len(callbacks)
     => LET e == LifecycleEvents(log')[1]
        IN \A c \in Subscribers :
             "onOrderEvent" \in c.handlers =>
               CallsOf(log', "onOrderEvent", c.name, e.id, e.ev) =
                 Registrations(callbacks, c.name)]_vars

-----------------------------------------------------------------------------
(* C31 *)

\* the names of the subscribers in cbs that implement handler, in list order
ImplementerNames(cbs, handler) ==
  LET implementers == SelectSeq(cbs, LAMBDA c : handler \in c.handlers)
  IN [i \in 1..Len(implementers) |-> implementers[i].name]

\* the names of the subscribers whose lifecycle handler was called, in call order
Receivers(l) == [i \in 1..Len(LifecycleEvents(l)) |-> LifecycleEvents(l)[i].sub]

\* C31: subscribers are notified in registration order; addCallback only
\* appends; removeCallback removes the subscriber that is the same object and
\* no other, after which that subscriber is not registered and so receives no
\* later event; and every lifecycle event is delivered exactly once to each
\* subscriber that was registered when the operation was called and
\* implements the lifecycle handler.
C31_SubscribersNotifiedOnceInOrder ==
  [][/\ last'.op = "addCallback" =>
          \E c \in Subscribers \cup ReentrantSubscribers :
            c.name = last'.id /\ callbacks' = Append(callbacks, c)
     /\ last'.op = "removeCallback" =>
          \E c \in Subscribers :
            /\ c.name = last'.id
            /\ callbacks' = SelectSeq(callbacks, LAMBDA x : x # c)
     /\ last'.op \in OneEventOps /\ Len(LifecycleEvents(log')) > 0 =>
          /\ Receivers(log') = ImplementerNames(callbacks, "onOrderEvent")
          /\ \A i, j \in 1..Len(Receivers(log')) :
               Receivers(log')[i] = Receivers(log')[j] => i = j]_vars

-----------------------------------------------------------------------------
(* C32 *)

EngineCalls == {"addOrder", "updateOrder", "onPressedMoving"}

\* C32: changing a field of an order object obtained from the engine does not
\* change the record the store returns afterwards, and a later operation of
\* the engine (such as a drag-moving event) does not change an object that
\* was handed out earlier.
C32_HandedOutOrdersAreCopies ==
  [][/\ last'.op = "order.price =" => orders' = orders
     /\ last'.op \in EngineCalls =>
          \A i \in 1..Len(handedOut) : handedOut'[i].value = handedOut[i].value]_vars

-----------------------------------------------------------------------------
(* C34 *)

\* C34: an order whose host primitive could not be created (no chart
\* attached, or no handle returned) gets its overlay binding from a later
\* refresh made while a chart is attached: from updateOrder of that order,
\* and from updateCurrentPrice and setTheme, which refresh every order.
C34_RefreshRetriesFailedOverlay ==
  [][/\ last'.op \in {"updateCurrentPrice", "setTheme"} /\ chart =>
          \A id \in MapKeys(orders') : MapHas(overlayIds', id)
     /\ last'.op = "updateOrder" /\ last'.raised = "" /\ chart =>
          MapHas(overlayIds', last'.id)]_vars

-----------------------------------------------------------------------------
(* C35 *)

\* two PnL results that are the same numbers (the percentage is a fraction)
SamePnl(a, b) ==
  /\ a.unrealizedPnl = b.unrealizedPnl
  /\ a.realizedPnl = b.realizedPnl
  /\ a.fees = b.fees
  /\ a.netPnl = b.netPnl
  /\ a.percentage.num * b.percentage.den = b.percentage.num * a.percentage.den

\* C35: after a drag-moving event on a pending order the engine has pushed a
\* visual refresh: the host was told to overwrite the bound primitive, whose
\* anchor and payload price equal the stored price and whose PnL result equals
\* calculatePnL(stored order, current reference price).
C35_DragRefreshesPrimitive ==
  [][/\ last'.op = "onPressedMoving"
     /\ MapHas(orders, last'.id)
     /\ MapGet(orders, last'.id).status = "pending"
     /\ MapHas(overlayIds', last'.id)
     => LET id == last'.id
            stored == MapGet(orders', id)
            primitive == overlays'[MapGet(overlayIds', id)]
        IN /\ \E i \in 1..Len(log') : log'[i].k = "host.override" /\ log'[i].id = id
           /\ primitive.points.value = stored.price
           /\ primitive.extendData.price = stored.price
           /\ SamePnl(primitive.extendData.pnlResult,
                      calculatePnL(stored, currentPrice'))]_vars

-----------------------------------------------------------------------------
(* C36 *)

\* the calls of subscribers' handlers in l
HandlerCalls(l) == SelectSeq(l, LAMBDA e : e.k \in CallbackHandlers)

\* C36, for the calls made while a chart is attached: updateCurrentPrice(p)
\* overwrites the payload of every bound primitive so that its reference price
\* is p and its PnL result equals calculatePnL(stored order, p), and it
\* changes no order record, adds or removes no binding and fires no event.
C36_PriceTickRefreshesEveryPrimitive ==
  [][last'.op = "updateCurrentPrice" /\ chart =>
       /\ \A id \in MapKeys(overlayIds') :
            LET payload == overlays'[MapGet(overlayIds', id)].extendData
            IN /\ payload.currentPrice = currentPrice'
               /\ SamePnl(payload.pnlResult,
                          calculatePnL(MapGet(orders', id), currentPrice'))
       /\ orders' = orders
       /\ overlayIds' = overlayIds
       /\ HandlerCalls(log') = <<>>]_vars

-----------------------------------------------------------------------------
(* C37 *)

\* every bound primitive's payload carries the style the current theme gives
\* the stored order
StylesFollowTheme(store, bindings, primitives, t) ==
  \A id \in MapKeys(bindings) :
    MapHas(store, id) =>
      primitives[MapGet(bindings, id)].extendData.theme =
        getOrderStyle(t, MapGet(store, id).side, MapGet(store, id).type)

\* C37, for the calls made while a chart is attached: after setTheme with
\* the light theme, and after every later successful addOrder and updateOrder
\* (the theme is still the light one), the style in the payload of every
\* bound primitive equals getOrderStyle(current theme, order.side, order.type).
C37_PayloadStyleFollowsTheme ==
  [][/\ last'.op \in {"setTheme", "addOrder", "updateOrder"}
     /\ last'.raised = ""
     /\ chart
     /\ theme' = lightTheme
     => StylesFollowTheme(orders', overlayIds', overlays', theme')]_vars

-----------------------------------------------------------------------------
(* C38 *)

\* the entry of a side's style table that belongs to an order type
\* (OrderTheme has entry, limit, stopLoss, takeProfit and market)
OwnStyleKey(type) ==
  IF type = "stop_loss" THEN "stopLoss"
  ELSE IF type = "take_profit" THEN "takeProfit"
  ELSE type

\* C38: for each side and each of the five order types getOrderStyle on a
\* built-in theme returns that type's own style entry (the stop-loss style
\* for stop_loss, the take-profit style for take_profit), for a call of the
\* function and in the payload the engine writes to a bound primitive; the
\* fallback to the side's entry style is not taken, every type having an entry.
C38_EveryTypeGetsItsOwnStyle ==
  /\ [][last'.op = "getOrderStyle" =>
          \A t \in {lightTheme, darkTheme}, side \in OrderSide, type \in OrderType :
            GetOrderStyleWith(t, side, type) =>
              Returned(log') = t[side][OwnStyleKey(type)]]_vars
  /\ [][last'.op = "setTheme" =>
          LET order == MapGet(orders', "a")
          IN overlays'[1].extendData.theme =
               theme'[order.side][OwnStyleKey(order.type)]]_vars

-----------------------------------------------------------------------------
(* C39 *)

\* C39: in every reachable state, for every key of the order map the stored
\* record's id equals the key, so that the record and its overlay binding are
\* addressed by the same id (also after updateOrder with an update that has
\* an id field).
C39_RecordIdEqualsKey ==
  \A i \in 1..Len(orders) : orders[i].value.id = orders[i].key

====
